---------------------------- MODULE Spec2Model ----------------------------
(***************************************************************************)
(* file-sense: the adaptive indexing and retrieval engine.                 *)
(*                                                                         *)
(* The model follows src/src/services: the paragraph chunker, the ONNX     *)
(* embedder's output representation, the FAISS index wrapper with its      *)
(* slot -> document id map and its on-disk snapshot, the SQLite metadata   *)
(* store, the streaming processor and the adaptive pipeline.               *)
(*                                                                         *)
(* Texts are sequences of one-character strings.  The neural model is      *)
(* replaced by a fixed deterministic feature map (one feature per letter   *)
(* of ModelLetters); everything after the model's output (quantization,    *)
(* packing, dtype and width checks, distances, ordering) is as in the      *)
(* code.  The chunk sizes of the modes are scaled down (EcoMaxChunk, ...)  *)
(* so that short texts produce several chunks.                             *)
(***************************************************************************)
EXTENDS Integers, Sequences, FiniteSets, TLC

----------------------------------------------------------------------------
(* Generic helpers *)

SetMin(S) == CHOOSE x \in S : \A y \in S : x <= y

SetMax(S) == CHOOSE x \in S : \A y \in S : x >= y

Range(f) == {f[x] : x \in DOMAIN f}

\* In(v): the value v under the name the body In gives it
With(v, In(_)) == In(v)

RECURSIVE SumSeq(_)
SumSeq(s) == IF s = <<>> THEN 0 ELSE Head(s) + SumSeq(Tail(s))

\* The elements of a finite set of integers in ascending order.
RECURSIVE Ascending(_)
Ascending(S) ==
    IF S = {} THEN <<>>
    ELSE LET m == SetMin(S) IN <<m>> \o Ascending(S \ {m})

----------------------------------------------------------------------------
(* Characters and strings (str.strip, str.find, str.split, re.split) *)

NL == "\n"

SP == " "

IsSpace(c) == c \in {SP, NL}

IsSentenceEnd(c) == c \in {".", "!", "?"}

\* str.strip()
Strip(s) ==
    LET keep == {i \in 1..Len(s) : ~IsSpace(s[i])}
    IN  IF keep = {} THEN <<>> ELSE SubSeq(s, SetMin(keep), SetMax(keep))

\* 1-based position of the first occurrence of pat in s at or after from, 0 if none
FindFrom(s, pat, from) ==
    LET hits == {i \in from..(Len(s) - Len(pat) + 1) :
                    SubSeq(s, i, i + Len(pat) - 1) = pat}
    IN  IF hits = {} THEN 0 ELSE SetMin(hits)

\* str.find(pat): 0-based index, -1 if absent
Find(s, pat) == FindFrom(s, pat, 1) - 1

\* last position of the maximal run of whitespace that starts at i (i - 1 if s[i] is
\* no whitespace)
SpaceRunEnd(s, i) ==
    LET stops == {j \in i..Len(s) : ~IsSpace(s[j])}
    IN  IF stops = {} THEN Len(s) ELSE SetMin(stops) - 1

\* re.split(r'\n\s*\n', text): end of the match that starts at i, 0 if none starts
\* there.  \s* is greedy and backtracks to the last newline of the whitespace run.
ParagraphBreakEnd(s, i) ==
    IF s[i] # NL THEN 0
    ELSE LET nls == {p \in (i + 1)..SpaceRunEnd(s, i + 1) : s[p] = NL}
         IN  IF nls = {} THEN 0 ELSE SetMax(nls)

RECURSIVE SplitParagraphsFrom(_, _, _)
SplitParagraphsFrom(s, i, start) ==
    IF i > Len(s) THEN <<SubSeq(s, start, Len(s))>>
    ELSE LET e == ParagraphBreakEnd(s, i)
         IN  IF e = 0 THEN SplitParagraphsFrom(s, i + 1, start)
             ELSE <<SubSeq(s, start, i - 1)>> \o SplitParagraphsFrom(s, e + 1, e + 1)

SplitParagraphs(s) == SplitParagraphsFrom(s, 1, 1)

\* re.split(r'(?<=[.!?])\s+', para): end of the match that starts at i, 0 if none
SentenceBreakEnd(s, i) ==
    IF i > 1 /\ IsSpace(s[i]) /\ IsSentenceEnd(s[i - 1])
    THEN SpaceRunEnd(s, i) ELSE 0

RECURSIVE SplitSentencesFrom(_, _, _)
SplitSentencesFrom(s, i, start) ==
    IF i > Len(s) THEN <<SubSeq(s, start, Len(s))>>
    ELSE LET e == SentenceBreakEnd(s, i)
         IN  IF e = 0 THEN SplitSentencesFrom(s, i + 1, start)
             ELSE <<SubSeq(s, start, i - 1)>> \o SplitSentencesFrom(s, e + 1, e + 1)

SplitSentences(s) == SplitSentencesFrom(s, 1, 1)

\* str.split(): the maximal runs of non-whitespace
RECURSIVE SplitWordsFrom(_, _)
SplitWordsFrom(s, i) ==
    IF i > Len(s) THEN <<>>
    ELSE IF IsSpace(s[i]) THEN SplitWordsFrom(s, i + 1)
    ELSE LET stops == {j \in i..Len(s) : IsSpace(s[j])}
             e == IF stops = {} THEN Len(s) ELSE SetMin(stops) - 1
         IN  <<SubSeq(s, i, e)>> \o SplitWordsFrom(s, e + 1)

SplitWords(s) == SplitWordsFrom(s, 1)

----------------------------------------------------------------------------
(* ParagraphChunker *)

\* _split_by_words: cur is current_chunk, the result the yielded chunks
RECURSIVE SplitByWordsLoop(_, _, _, _)
SplitByWordsLoop(words, i, cur, max_chunk_size) ==
    IF i > Len(words)
    THEN IF cur # <<>> THEN <<Strip(cur)>> ELSE <<>>
    ELSE LET word == words[i]
         IN  IF Len(cur) + Len(word) + 1 <= max_chunk_size
             THEN SplitByWordsLoop(words, i + 1,
                      IF cur # <<>> THEN cur \o <<SP>> \o word ELSE word,
                      max_chunk_size)
             ELSE (IF cur # <<>> THEN <<Strip(cur)>> ELSE <<>>)
                  \o SplitByWordsLoop(words, i + 1, word, max_chunk_size)

SplitByWords(text, max_chunk_size) ==
    SplitByWordsLoop(SplitWords(text), 1, <<>>, max_chunk_size)

\* _split_large_paragraph
RECURSIVE SplitLargeLoop(_, _, _, _)
SplitLargeLoop(sentences, i, cur, max_chunk_size) ==
    IF i > Len(sentences)
    THEN IF cur # <<>> THEN <<Strip(cur)>> ELSE <<>>
    ELSE LET sentence == Strip(sentences[i])
         IN  IF sentence = <<>>
             THEN SplitLargeLoop(sentences, i + 1, cur, max_chunk_size)
             ELSE IF Len(sentence) > max_chunk_size
             THEN (IF cur # <<>> THEN <<Strip(cur)>> ELSE <<>>)
                  \o SplitByWords(sentence, max_chunk_size)
                  \o SplitLargeLoop(sentences, i + 1, <<>>, max_chunk_size)
             ELSE IF Len(cur) + Len(sentence) + 1 <= max_chunk_size
             THEN SplitLargeLoop(sentences, i + 1,
                      IF cur # <<>> THEN cur \o <<SP>> \o sentence ELSE sentence,
                      max_chunk_size)
             ELSE (IF cur # <<>> THEN <<Strip(cur)>> ELSE <<>>)
                  \o SplitLargeLoop(sentences, i + 1, sentence, max_chunk_size)

SplitLargeParagraph(para, max_chunk_size) ==
    SplitLargeLoop(SplitSentences(para), 1, <<>>, max_chunk_size)

\* _get_overlap_text
GetOverlapText(text, overlap) ==
    IF text = <<>> THEN <<>>
    ELSE IF Len(text) <= overlap THEN text
    ELSE LET overlap_text == SubSeq(text, Len(text) - overlap + 1, Len(text))
             sentence_start == Find(overlap_text, <<".", SP>>) + 2
             word_start == Find(overlap_text, <<SP>>) + 1
         IN  IF sentence_start > 2
             THEN SubSeq(overlap_text, sentence_start + 1, Len(overlap_text))
             ELSE IF word_start > 0
             THEN SubSeq(overlap_text, word_start + 1, Len(overlap_text))
             ELSE overlap_text

\* chunk_streaming: the loop over the paragraphs
RECURSIVE ChunkLoop(_, _, _, _, _)
ChunkLoop(paragraphs, i, cur, max_chunk_size, overlap) ==
    IF i > Len(paragraphs)
    THEN IF cur # <<>> THEN <<Strip(cur)>> ELSE <<>>
    ELSE LET para == Strip(paragraphs[i])
         IN  IF para = <<>>
             THEN ChunkLoop(paragraphs, i + 1, cur, max_chunk_size, overlap)
             ELSE IF Len(para) > max_chunk_size
             THEN (IF cur # <<>> THEN <<Strip(cur)>> ELSE <<>>)
                  \o SplitLargeParagraph(para, max_chunk_size)
                  \o ChunkLoop(paragraphs, i + 1, <<>>, max_chunk_size, overlap)
             ELSE IF Len(cur) + Len(para) + 2 <= max_chunk_size
             THEN ChunkLoop(paragraphs, i + 1,
                      IF cur # <<>> THEN cur \o <<NL, NL>> \o para ELSE para,
                      max_chunk_size, overlap)
             ELSE LET overlap_text == GetOverlapText(cur, overlap)
                      next == IF overlap > 0 /\ cur # <<>>
                              THEN IF overlap_text # <<>>
                                   THEN overlap_text \o <<NL, NL>> \o para
                                   ELSE para
                              ELSE para
                  IN  (IF cur # <<>> THEN <<Strip(cur)>> ELSE <<>>)
                      \o ChunkLoop(paragraphs, i + 1, next, max_chunk_size, overlap)

\* ParagraphChunker.chunk_streaming(text), as the list of the chunks it yields
chunk_streaming(text, max_chunk_size, overlap) ==
    IF text = <<>> \/ Strip(text) = <<>> THEN <<>>
    ELSE ChunkLoop(SplitParagraphs(text), 1, <<>>, max_chunk_size, overlap)

----------------------------------------------------------------------------
(* Operating modes and their settings *)

Modes == {"eco", "balanced", "performance"}

\* str.lower() on the strings given as modes
Lower(s) ==
    IF s = "ECO" THEN "eco" ELSE IF s = "Balanced" THEN "balanced" ELSE s

\* The strings switch_mode is called with
ModeStrings == Modes \cup {"ECO", "Balanced", "turbo", ""}

\* use_binary = mode in ("eco", "balanced")
UseBinary(mode) == mode \in {"eco", "balanced"}

\* Scaled chunker settings (source: 512/50 for eco, 1000/100 otherwise).
EcoMaxChunk == 4

EcoOverlap == 1

WideMaxChunk == 6

WideOverlap == 2

\* create_chunker_for_mode
create_chunker_for_mode(mode) ==
    IF mode = "eco"
    THEN [max_chunk_size |-> EcoMaxChunk, overlap |-> EcoOverlap]
    ELSE [max_chunk_size |-> WideMaxChunk, overlap |-> WideOverlap]

\* chunker.chunk_streaming(text) of the chunker built for mode
Chunks(text, mode) ==
    LET c == create_chunker_for_mode(mode)
    IN  chunk_streaming(text, c.max_chunk_size, c.overlap)

----------------------------------------------------------------------------
(* ONNXEmbedder: output representation *)

\* One model feature per letter.  DIM stands for ONNXEmbedder.DIM (384); it is a
\* multiple of 8 so that quantize_binary packs whole bytes.
ModelLetters == <<"a", "b", "c", "d", "e", "f", "g", "h">>

DIM == Len(ModelLetters)

\* The float output row of the model for one text: feature i is positive iff
\* letter i occurs in the text (components in units of 1/sqrt(DIM), so the row
\* has unit norm).
ModelOutput(text) ==
    [i \in 1..DIM |-> IF \E j \in 1..Len(text) : text[j] = ModelLetters[i]
                      THEN 1 ELSE -1]

RECURSIVE Pow2(_)
Pow2(n) == IF n = 0 THEN 1 ELSE 2 * Pow2(n - 1)

\* quantize_binary that shifts bit i of a byte by i instead of 7 - i (bit 8j in
\* the least significant position)
quantize_binary_LowBitFirst(row) ==
    LET packed_dims == Len(row) \div 8
        bit(n) == IF row[n] > 0 THEN 1 ELSE 0
    IN  [j \in 1..packed_dims |->
            SumSeq([i \in 1..8 |-> bit(8 * (j - 1) + i) * Pow2(i - 1)])]

\* quantize_binary for one row: bit = (v > 0); byte j packs bits 8j..8j+7 with
\* bit 8j shifted to the most significant position (<< (7 - i)).
quantize_binary(row) ==
    LET packed_dims == Len(row) \div 8
        bit(n) == IF row[n] > 0 THEN 1 ELSE 0
    IN  [j \in 1..packed_dims |->
            SumSeq([i \in 1..8 |-> bit(8 * (j - 1) + i) * Pow2(7 - (i - 1))])]

\* embedder.encode(texts): a matrix with its dtype
encode(texts, mode) ==
    IF UseBinary(mode)
    THEN [dtype |-> "uint8",
          rows |-> [n \in 1..Len(texts) |-> quantize_binary(ModelOutput(texts[n]))]]
    ELSE [dtype |-> "float32",
          rows |-> [n \in 1..Len(texts) |-> ModelOutput(texts[n])]]

----------------------------------------------------------------------------
(* LightweightFAISSIndex *)

EmptyMap == [s \in {} |-> 0]

\* _init_index plus the constructor's fields: an empty backend of the mode's kind
NewIndex(mode) ==
    [mode |-> mode, use_binary |-> UseBinary(mode), dim |-> DIM,
     vecs |-> <<>>, id_map |-> EmptyMap, next_internal_id |-> 0]

\* index.ntotal
ntotal(ix) == Len(ix.vecs)

\* the files lightweight_faiss.bin and lightweight_faiss_ids.pkl
NoDisk ==
    [bin |-> [exists |-> FALSE, use_binary |-> FALSE, dim |-> DIM, vecs |-> <<>>],
     pkl |-> [exists |-> FALSE, id_map |-> EmptyMap, next_id |-> 0]]

\* save_cache() that writes the id mapping without next_id
save_cache_NoNextId(ix) ==
    [bin |-> [exists |-> TRUE, use_binary |-> ix.use_binary, dim |-> ix.dim,
              vecs |-> ix.vecs],
     pkl |-> [exists |-> TRUE, id_map |-> ix.id_map, next_id |-> 0]]

\* save_cache: writes the backend (its kind, its dimension d and its vectors)
\* and the id mapping
save_cache(ix) ==
    [bin |-> [exists |-> TRUE, use_binary |-> ix.use_binary, dim |-> ix.dim,
              vecs |-> ix.vecs],
     pkl |-> [exists |-> TRUE, id_map |-> ix.id_map, next_id |-> ix.next_internal_id]]

\* _load_cache on a freshly initialised index: read_index / read_index_binary
\* raises on a file of the other kind, and the handler starts fresh; the id
\* mapping is read only after the backend was read. The backend that was read
\* replaces the one of _init_index, with the dimension stored in the file;
\* self.dim is not compared with it.
load_cache(ix, disk) ==
    IF ~disk.bin.exists THEN ix
    ELSE IF disk.bin.use_binary # ix.use_binary THEN ix
    ELSE IF disk.pkl.exists
    THEN [ix EXCEPT !.dim = disk.bin.dim, !.vecs = disk.bin.vecs,
                    !.id_map = disk.pkl.id_map,
                    !.next_internal_id = disk.pkl.next_id]
    ELSE [ix EXCEPT !.dim = disk.bin.dim, !.vecs = disk.bin.vecs]

\* LightweightFAISSIndex(mode, dim, cache_dir)
OpenIndex(mode, disk) == load_cache(NewIndex(mode), disk)

\* Width of a row the backend accepts: d bits packed in d/8 bytes, or d floats
\* (ix.dim is the d of the backend in use).
BackendWidth(ix) == IF ix.use_binary THEN ix.dim \div 8 ELSE ix.dim

\* add(embeddings, doc_ids): [raised, returned, ix]
add(ix, embeddings, doc_ids) ==
    IF Len(embeddings.rows) = 0 \/ Len(doc_ids) = 0
    THEN [raised |-> FALSE, returned |-> FALSE, ix |-> ix]
    ELSE IF Len(embeddings.rows) # Len(doc_ids)
    THEN [raised |-> TRUE, returned |-> FALSE, ix |-> ix]
    ELSE IF ix.use_binary /\ embeddings.dtype # "uint8"
    THEN [raised |-> TRUE, returned |-> FALSE, ix |-> ix]
    ELSE IF \E n \in 1..Len(embeddings.rows) :
                Len(embeddings.rows[n]) # BackendWidth(ix)
    THEN [raised |-> TRUE, returned |-> FALSE, ix |-> ix]
    ELSE [raised |-> FALSE, returned |-> TRUE,
          ix |-> [ix EXCEPT
                    !.vecs = ix.vecs \o embeddings.rows,
                    !.id_map =
                        [s \in DOMAIN ix.id_map \cup
                               {ix.next_internal_id + i - 1 : i \in 1..Len(doc_ids)} |->
                            IF s - ix.next_internal_id + 1 \in 1..Len(doc_ids)
                            THEN doc_ids[s - ix.next_internal_id + 1]
                            ELSE ix.id_map[s]],
                    !.next_internal_id = ix.next_internal_id + Len(doc_ids)]]

\* bit i (0 = most significant) of a byte
BitOf(byte, i) == (byte \div Pow2(7 - i)) % 2

\* Hamming distance of two packed rows: population count of the XOR
Hamming(a, b) ==
    SumSeq([n \in 1..(8 * Len(a)) |->
        IF BitOf(a[((n - 1) \div 8) + 1], (n - 1) % 8)
           # BitOf(b[((n - 1) \div 8) + 1], (n - 1) % 8) THEN 1 ELSE 0])

\* squared L2 distance of two float rows
L2(a, b) == SumSeq([n \in 1..Len(a) |-> (a[n] - b[n]) * (a[n] - b[n])])

Distance(ix, q, v) == IF ix.use_binary THEN Hamming(q, v) ELSE L2(q, v)

\* The backend's search for one query row: the k nearest slots by ascending
\* (distance, slot), padded with slot -1 when fewer than k vectors are stored.
RECURSIVE NearestSlots(_, _, _, _)
NearestSlots(ix, q, left, k) ==
    IF k = 0 THEN <<>>
    ELSE IF left = {} THEN <<[idx |-> -1, dist |-> -1]>> \o NearestSlots(ix, q, left, k - 1)
    ELSE LET d(s) == Distance(ix, q, ix.vecs[s + 1])
             best == CHOOSE s \in left :
                        \A t \in left : d(s) < d(t) \/ (d(s) = d(t) /\ s <= t)
         IN  <<[idx |-> best, dist |-> d(best)]>>
             \o NearestSlots(ix, q, left \ {best}, k - 1)

\* the loop of search() that converts internal indices to doc ids
RECURSIVE ToDocIds(_, _, _)
ToDocIds(ix, hits, i) ==
    IF i > Len(hits) THEN <<>>
    ELSE LET idx == hits[i].idx
         IN  IF idx < 0 \/ idx >= ix.next_internal_id
             THEN ToDocIds(ix, hits, i + 1)
             ELSE IF idx \notin DOMAIN ix.id_map
             THEN ToDocIds(ix, hits, i + 1)
             ELSE <<[doc_id |-> ix.id_map[idx], dist |-> hits[i].dist, slot |-> idx]>>
                  \o ToDocIds(ix, hits, i + 1)

\* search() asking the backend for one neighbour more than k
search_OneMore(ix, query, k) ==
    IF ntotal(ix) = 0 THEN [raised |-> FALSE, hits |-> <<>>]
    ELSE IF ix.use_binary /\ query.dtype # "uint8"
    THEN [raised |-> TRUE, hits |-> <<>>]
    ELSE IF Len(query.rows[1]) # BackendWidth(ix)
    THEN [raised |-> TRUE, hits |-> <<>>]
    ELSE [raised |-> FALSE,
          hits |-> ToDocIds(ix,
                       NearestSlots(ix, query.rows[1], 0..(ntotal(ix) - 1), k + 1), 1)]

\* search(query_embedding, k): [raised, hits]; hits pair doc ids with distances
\* (and the slot each came from, for the properties)
search(ix, query, k) ==
    IF ntotal(ix) = 0 THEN [raised |-> FALSE, hits |-> <<>>]
    ELSE IF ix.use_binary /\ query.dtype # "uint8"
    THEN [raised |-> TRUE, hits |-> <<>>]
    ELSE IF Len(query.rows[1]) # BackendWidth(ix)
    THEN [raised |-> TRUE, hits |-> <<>>]
    ELSE [raised |-> FALSE,
          hits |-> ToDocIds(ix,
                       NearestSlots(ix, query.rows[1], 0..(ntotal(ix) - 1), k), 1)]

\* remove() that hands the erased slots out again: next_internal_id goes back
\* by the number of mappings erased
remove_ReclaimsSlots(ix, doc_ids) ==
    LET internal_ids_to_remove ==
            {s \in DOMAIN ix.id_map : \E i \in 1..Len(doc_ids) : doc_ids[i] = ix.id_map[s]}
    IN  [removed_count |-> Cardinality(internal_ids_to_remove),
         ix |-> [ix EXCEPT
                   !.id_map = [s \in DOMAIN ix.id_map \ internal_ids_to_remove
                               |-> ix.id_map[s]],
                   !.next_internal_id = @ - Cardinality(internal_ids_to_remove)]]

\* remove(doc_ids): [removed_count, ix]
remove(ix, doc_ids) ==
    LET internal_ids_to_remove ==
            {s \in DOMAIN ix.id_map : \E i \in 1..Len(doc_ids) : doc_ids[i] = ix.id_map[s]}
    IN  [removed_count |-> Cardinality(internal_ids_to_remove),
         ix |-> [ix EXCEPT !.id_map =
                    [s \in DOMAIN ix.id_map \ internal_ids_to_remove |-> ix.id_map[s]]]]

\* clear() that empties the id mapping and leaves the vectors in the index
clear_KeepsVectors(ix) == [ix EXCEPT !.id_map = EmptyMap, !.next_internal_id = 0]

\* clear()
clear(ix) == [ix EXCEPT !.vecs = <<>>, !.id_map = EmptyMap, !.next_internal_id = 0]

----------------------------------------------------------------------------
(* The files on disk that the operations are applied to *)

Text1 == <<"a", "b", NL, NL, "c", "a">>

Text2 == <<"c", "a", NL, NL>>

Blank == <<SP, NL>>

Text3 == <<"a", "b", NL, NL, "b", "c", NL, NL, "c", "a">>

\* path -> the file there; /d/c.txt is a copy of /d/b.txt, and /e/l.txt is a
\* file with more chunks than SaveEvery
FileSystem ==
    [p \in {"/d/a.txt", "/d/b.txt", "/d/c.txt", "/d/w.txt", "/d/none.txt", "/e/l.txt"} |->
        CASE p = "/d/a.txt" -> [exists |-> TRUE, name |-> "a.txt", suffix |-> ".txt", bytes |-> Text1]
          [] p = "/d/b.txt" -> [exists |-> TRUE, name |-> "b.txt", suffix |-> ".txt", bytes |-> Text2]
          [] p = "/d/c.txt" -> [exists |-> TRUE, name |-> "c.txt", suffix |-> ".txt", bytes |-> Text2]
          [] p = "/d/w.txt" -> [exists |-> TRUE, name |-> "w.txt", suffix |-> ".txt", bytes |-> Blank]
          [] p = "/e/l.txt" -> [exists |-> TRUE, name |-> "l.txt", suffix |-> ".txt", bytes |-> Text3]
          [] OTHER -> [exists |-> FALSE, name |-> "none.txt", suffix |-> ".txt", bytes |-> <<>>]]

Paths == DOMAIN FileSystem

\* compute_file_hash: SHA-256 of the bytes, as a name per content (no collisions)
compute_file_hash(path) ==
    LET b == FileSystem[path].bytes
    IN  IF b = Text1 THEN "h1" ELSE IF b = Text2 THEN "h2"
        ELSE IF b = Text3 THEN "h4" ELSE "h3"

Hashes == {compute_file_hash(p) : p \in {q \in Paths : FileSystem[q].exists}}

TextSuffixes == {".txt", ".md", ".json", ".csv", ".py", ".js", ".html", ".css"}

\* _extract_text
extract_text(path) ==
    IF FileSystem[path].suffix \in TextSuffixes THEN FileSystem[path].bytes ELSE <<>>

----------------------------------------------------------------------------
(* LightweightFileManager: the files table, a map id -> row *)

EmptyTable == [i \in {} |-> 0]

\* insert_chunk: a failing INSERT (an I/O error, or the id already present) is
\* caught and reported in the returned record; the table is then unchanged.
insert_chunk(db, metadata, io_fails) ==
    IF io_fails \/ metadata.id \in DOMAIN db
    THEN [success |-> FALSE, db |-> db]
    ELSE [success |-> TRUE,
          db |-> [i \in DOMAIN db \cup {metadata.id} |->
                     IF i = metadata.id THEN metadata ELSE db[i]]]

\* fetch_by_id: SELECT ... WHERE id IN (...) without ORDER BY; SQLite walks the
\* primary key, so the rows come in ascending id order, each once, and ids with
\* no row yield nothing.
fetch_by_id(db, ids) ==
    LET found == Ascending({i \in DOMAIN db : \E n \in 1..Len(ids) : ids[n] = i})
    IN  [n \in 1..Len(found) |-> db[found[n]]]

\* check_hash_exists
check_hash_exists(db, file_hash) == \E i \in DOMAIN db : db[i].file_hash = file_hash

\* get_ids_by_hashes (the callers pass one hash; its rows come in id order)
get_ids_by_hashes(db, file_hashes) ==
    Ascending({i \in DOMAIN db :
                 \E n \in 1..Len(file_hashes) : file_hashes[n] = db[i].file_hash})

\* delete_by_ids: [rowcount, db]
delete_by_ids(db, ids) ==
    LET gone == {i \in DOMAIN db : \E n \in 1..Len(ids) : ids[n] = i}
    IN  [rowcount |-> Cardinality(gone),
         db |-> [i \in DOMAIN db \ gone |-> db[i]]]

\* get_max_id: MAX(id), 0 for an empty table
get_max_id(db) == IF DOMAIN db = {} THEN 0 ELSE SetMax(DOMAIN db)

\* count_chunks
count_chunks(db) == Cardinality(DOMAIN db)

\* count_unique_files
count_unique_files(db) == Cardinality({db[i].file_hash : i \in DOMAIN db})

----------------------------------------------------------------------------
(* StreamingDocumentProcessor                                              *)
(*                                                                         *)
(* The operators below work on a record w of everything an operation can   *)
(* touch: the processor's fields (mode, mode_switched, oom_protection,     *)
(* embedder and chunker, each named by the mode it was built for), its     *)
(* index ix, the files table db, the snapshot files disk, and the history  *)
(* kept for the properties (eco_switches: the executions of                *)
(* _switch_to_eco_mode; faults: the faults the environment has injected).  *)
(* pos counts the chunks attempted by the operation; the environment's     *)
(* plan says what happens to the chunk attempted at each position.         *)
(***************************************************************************)

\* What can happen to one chunk: nothing, the embedder raising an error, a
\* MemoryError while embedding, the INSERT failing.
Outcomes == {"ok", "embed_error", "oom", "insert_fails"}

OutcomeAt(plan, pos) == IF pos <= Len(plan) THEN plan[pos] ELSE "ok"

\* The chunk loop saves the snapshot when chunks_inserted % 100 == 0 or < 100;
\* the 100 of the code is scaled down to 2, and /e/l.txt has 3 chunks in eco mode.
SaveEvery == 2

\* StreamingDocumentProcessor(mode, cache_dir): _init_components
NewProcessor(mode, w) ==
    [w EXCEPT !.mode = mode, !.mode_switched = FALSE, !.oom_protection = TRUE,
              !.embedder = mode, !.chunker = mode, !.ix = OpenIndex(mode, w.disk)]

\* _switch_to_eco_mode
switch_to_eco_mode(w) ==
    [w EXCEPT !.mode = "eco", !.mode_switched = TRUE,
              !.embedder = "eco", !.chunker = "eco",
              !.eco_switches = @ + 1]

\* The for loop of _process_chunks_streaming from the i-th chunk on, n chunks
\* inserted so far: [w, exc, n], exc the exception that ended it ("none" when
\* the loop ran to its end).
RECURSIVE ChunkInsertLoop(_, _, _, _, _, _, _)
ChunkInsertLoop(w, file, chunks, i, n, start_id, plan) ==
    IF i > Len(chunks) THEN [w |-> w, exc |-> "none", n |-> n]
    ELSE IF Strip(chunks[i]) = <<>>
    THEN ChunkInsertLoop(w, file, chunks, i + 1, n, start_id, plan)
    ELSE LET outcome == OutcomeAt(plan, w.pos)
             w1 == [w EXCEPT !.pos = @ + 1]
             current_id == start_id + n
             embedding == encode(<<chunks[i]>>, w.embedder)
             inserted == insert_chunk(w.db,
                             [id |-> current_id,
                              file_hash |-> file.file_hash,
                              file_path |-> file.file_path,
                              file_name |-> file.file_name,
                              text |-> chunks[i],
                              chunk_index |-> n,
                              total_chunks |-> -1],
                             outcome = "insert_fails")
         IN  IF outcome = "oom" THEN [w |-> w1, exc |-> "MemoryError", n |-> n]
             ELSE IF outcome = "embed_error" THEN [w |-> w1, exc |-> "Exception", n |-> n]
             ELSE With(add(w.ix, embedding, <<current_id>>), LAMBDA added :
                 IF added.raised THEN [w |-> w1, exc |-> "Exception", n |-> n]
                 ELSE ChunkInsertLoop(
                          [w1 EXCEPT !.ix = added.ix, !.db = inserted.db],
                          file, chunks, i + 1, n + 1, start_id, plan))

\* _update_total_chunks: UPDATE files SET total_chunks = ? WHERE id = ? for the
\* ids start_id .. start_id + total_chunks - 1
update_total_chunks(db, start_id, total_chunks) ==
    [i \in DOMAIN db |->
        IF i \in start_id..(start_id + total_chunks - 1)
        THEN [db[i] EXCEPT !.total_chunks = total_chunks]
        ELSE db[i]]

\* _process_chunks_streaming: [w, exc, chunks_inserted]
RECURSIVE process_chunks_streaming(_, _, _, _)
process_chunks_streaming(w, file, text, plan) ==
    LET start_id == get_max_id(w.db) + 1
        remaining_text == SubSeq(text, (Len(text) \div 2) + 1, Len(text))
    IN  With(ChunkInsertLoop(w, file, Chunks(text, w.chunker), 1, 0, start_id, plan),
             LAMBDA loop :
        IF loop.exc = "none"
        THEN [w |-> [loop.w EXCEPT
                        !.db = IF loop.n > 0
                               THEN update_total_chunks(@, start_id, loop.n) ELSE @,
                        !.disk = IF loop.n % SaveEvery = 0 \/ loop.n < SaveEvery
                                 THEN save_cache(loop.w.ix) ELSE @],
              exc |-> "none", chunks_inserted |-> loop.n]
        ELSE IF loop.exc = "MemoryError" /\ loop.w.oom_protection /\ ~loop.w.mode_switched
        THEN IF Strip(remaining_text) # <<>>
             THEN process_chunks_streaming(switch_to_eco_mode(loop.w), file,
                                           remaining_text, plan)
             ELSE [w |-> switch_to_eco_mode(loop.w), exc |-> "MemoryError",
                   chunks_inserted |-> 0]
        ELSE [w |-> loop.w, exc |-> loop.exc, chunks_inserted |-> 0])

\* ProcessingResult
ProcessingResult(success, chunks_inserted, mode, oom_switched, message, error) ==
    [success |-> success, chunks_inserted |-> chunks_inserted, mode |-> mode,
     oom_switched |-> oom_switched, message |-> message, error |-> error]

\* _handle_oom(filepath, progress): [w, result]
handle_oom(w, progress) ==
    IF ~w.oom_protection
    THEN [w |-> w,
          result |-> ProcessingResult(FALSE, progress, w.mode, FALSE, "", "Out of memory")]
    ELSE [w |-> switch_to_eco_mode(w),
          result |-> ProcessingResult(TRUE, progress, "eco", TRUE, "Switched to ECO mode", "None")]

\* StreamingDocumentProcessor.index_file(filepath): [w, result]
processor_index_file(w, path, plan) ==
    LET file_hash == compute_file_hash(path)
        text == extract_text(path)
        file == [file_hash |-> file_hash, file_path |-> path,
                 file_name |-> FileSystem[path].name]
    IN  IF ~FileSystem[path].exists
        THEN [w |-> w,
              result |-> ProcessingResult(FALSE, 0, w.mode, FALSE, "", "File not found")]
        ELSE IF check_hash_exists(w.db, file_hash)
        THEN [w |-> w,
              result |-> ProcessingResult(TRUE, 0, w.mode, FALSE,
                             "File already indexed (duplicate)", "None")]
        ELSE IF text = <<>> \/ Strip(text) = <<>>
        THEN [w |-> w,
              result |-> ProcessingResult(FALSE, 0, w.mode, FALSE,
                             "No text content extracted", "None")]
        ELSE With(process_chunks_streaming(w, file, text, plan), LAMBDA done :
            IF done.exc = "none"
            THEN [w |-> done.w,
                  result |-> ProcessingResult(TRUE, done.chunks_inserted, done.w.mode,
                                 done.w.mode_switched, "", "None")]
            ELSE IF done.exc = "MemoryError"
            THEN handle_oom(done.w, 0)
            ELSE [w |-> done.w,
                  result |-> ProcessingResult(FALSE, 0, done.w.mode, FALSE, "",
                                 "Exception")])

\* The directories: /d lists its files with a text suffix in this order.
DirListing(dirpath) ==
    IF dirpath = "/d" THEN <<"/d/a.txt", "/d/b.txt", "/d/c.txt", "/d/w.txt">> ELSE <<>>

DirExists(dirpath) == dirpath = "/d"

Dirs == {"/d", "/nodir", "/d/a.txt"}

\* The loop of index_directory over the files from the i-th on:
\* [w, total_chunks, files_indexed]
\* The loop of index_directory that stops at the first file whose result is
\* negative
RECURSIVE DirectoryLoop_AbortsOnError(_, _, _, _, _, _)
DirectoryLoop_AbortsOnError(w, files, i, total_chunks, files_indexed, plan) ==
    IF i > Len(files)
    THEN [w |-> w, total_chunks |-> total_chunks, files_indexed |-> files_indexed]
    ELSE With(processor_index_file(w, files[i], plan), LAMBDA one :
             IF ~one.result.success
             THEN [w |-> one.w, total_chunks |-> total_chunks,
                   files_indexed |-> files_indexed]
             ELSE DirectoryLoop_AbortsOnError(
                      IF one.result.oom_switched
                      THEN [one.w EXCEPT !.mode_switched = TRUE] ELSE one.w,
                      files, i + 1,
                      total_chunks + one.result.chunks_inserted,
                      IF one.result.chunks_inserted > 0
                      THEN files_indexed + 1 ELSE files_indexed,
                      plan))

RECURSIVE DirectoryLoop(_, _, _, _, _, _)
DirectoryLoop(w, files, i, total_chunks, files_indexed, plan) ==
    IF i > Len(files)
    THEN [w |-> w, total_chunks |-> total_chunks, files_indexed |-> files_indexed]
    ELSE With(processor_index_file(w, files[i], plan), LAMBDA one :
             DirectoryLoop(
                 IF one.result.oom_switched
                 THEN [one.w EXCEPT !.mode_switched = TRUE] ELSE one.w,
                 files, i + 1,
                 IF one.result.success
                 THEN total_chunks + one.result.chunks_inserted ELSE total_chunks,
                 IF one.result.success /\ one.result.chunks_inserted > 0
                 THEN files_indexed + 1 ELSE files_indexed,
                 plan))

\* StreamingDocumentProcessor.index_directory(dirpath): [w, result, files_indexed];
\* files_indexed is the local counter, which the result carries in its message only
processor_index_directory(w, dirpath, plan) ==
    LET files == DirListing(dirpath)
    IN  IF ~DirExists(dirpath)
        THEN [w |-> w, files_indexed |-> 0,
              result |-> ProcessingResult(FALSE, 0, w.mode, FALSE, "", "Directory not found")]
        ELSE IF Len(files) = 0
        THEN [w |-> w, files_indexed |-> 0,
              result |-> ProcessingResult(TRUE, 0, w.mode, FALSE,
                             "No files found to index", "None")]
        ELSE With(DirectoryLoop(w, files, 1, 0, 0, plan), LAMBDA walk :
            [w |-> [walk.w EXCEPT !.disk = save_cache(walk.w.ix)],
             files_indexed |-> walk.files_indexed,
             result |-> ProcessingResult(TRUE, walk.total_chunks, walk.w.mode,
                            walk.w.mode_switched, "Indexed files", "None")])

\* max_distance of the binary score
MaxDistance == 384

\* round(score, 4) in ten-thousandths: 1 - distance / 384 for the binary index,
\* 1 / (1 + distance) for the float index
Score(ix, distance) ==
    IF ix.use_binary
    THEN (2 * 10000 * (MaxDistance - distance) + MaxDistance) \div (2 * MaxDistance)
    ELSE (2 * 10000 + (1 + distance)) \div (2 * (1 + distance))

\* StreamingDocumentProcessor.search(query, k): [raised, hits, results]; hits is
\* what the index returned, results pairs the fetched rows with the doc ids and
\* distances position by position (zip stops at the shortest)
processor_search(w, query, k) ==
    With(search(w.ix, encode(<<query>>, w.embedder), k), LAMBDA found :
    With([n \in 1..Len(found.hits) |-> found.hits[n].doc_id], LAMBDA doc_ids :
    With(fetch_by_id(w.db, doc_ids), LAMBDA chunks :
        IF found.raised THEN [raised |-> TRUE, hits |-> <<>>, results |-> <<>>]
        ELSE [raised |-> FALSE, hits |-> found.hits,
              results |->
                  [n \in 1..(IF Len(chunks) < Len(doc_ids)
                             THEN Len(chunks) ELSE Len(doc_ids)) |->
                      [id |-> doc_ids[n],
                       file_name |-> chunks[n].file_name,
                       file_path |-> chunks[n].file_path,
                       text |-> chunks[n].text,
                       score |-> Score(w.ix, found.hits[n].dist),
                       slot |-> found.hits[n].slot]]])))

\* StreamingDocumentProcessor.delete_by_hash(file_hash): [w, deleted]
processor_delete_by_hash(w, file_hash) ==
    With(get_ids_by_hashes(w.db, <<file_hash>>), LAMBDA ids :
    With(remove(w.ix, ids), LAMBDA removed :
    With(delete_by_ids(w.db, ids), LAMBDA deleted :
        IF Len(ids) = 0 THEN [w |-> w, deleted |-> 0]
        ELSE [w |-> [w EXCEPT !.ix = removed.ix, !.db = deleted.db,
                              !.disk = save_cache(removed.ix)],
              deleted |-> deleted.rowcount])))

\* StreamingDocumentProcessor.clear_all()
clear_all(w) ==
    [w EXCEPT !.ix = clear(w.ix), !.disk = save_cache(clear(w.ix)), !.db = EmptyTable]

\* StreamingDocumentProcessor.close()
close(w) == [w EXCEPT !.disk = save_cache(w.ix)]

----------------------------------------------------------------------------
(* What is on disk when the process dies inside an operation: the files   *)
(* table (autocommit, each statement is durable when it returns) and the  *)
(* two snapshot files, at each point between the statements that write.   *)

OnDisk(table, files) == [db |-> table, disk |-> files]

\* save_cache writes lightweight_faiss.bin, then lightweight_faiss_ids.pkl
SavePoints(ix, files) ==
    {files, [bin |-> save_cache(ix).bin, pkl |-> files.pkl], save_cache(ix)}

\* delete_by_hash: remove (memory only), delete_by_ids, save_cache
delete_by_hash_CrashPoints(w, file_hash) ==
    LET ids == get_ids_by_hashes(w.db, <<file_hash>>)
        removed == remove(w.ix, ids)
        deleted == delete_by_ids(w.db, ids)
    IN  IF Len(ids) = 0 THEN {OnDisk(w.db, w.disk)}
        ELSE {OnDisk(w.db, w.disk)}
             \cup {OnDisk(deleted.db, files) : files \in SavePoints(removed.ix, w.disk)}

\* clear_all: clear (memory only), save_cache, DELETE FROM files
clear_all_CrashPoints(w) ==
    {OnDisk(w.db, files) : files \in SavePoints(clear(w.ix), w.disk)}
    \cup {OnDisk(EmptyTable, save_cache(clear(w.ix)))}

\* The chunk loop of index_file(path) without failures, stopped when the
\* first k chunks of the text were taken: [w, exc, n]
LoopTo(w, path, k) ==
    LET file == [file_hash |-> compute_file_hash(path), file_path |-> path,
                 file_name |-> FileSystem[path].name]
        chunks == Chunks(extract_text(path), w.chunker)
    IN  ChunkInsertLoop(w, file, SubSeq(chunks, 1, k), 1, 0, get_max_id(w.db) + 1,
                        [n \in 1..Len(chunks) |-> "ok"])

\* index_file without failures: after each chunk's add and INSERT, after the
\* UPDATEs of total_chunks, and inside the save_cache at the end
index_file_CrashPoints(w, path) ==
    LET text == extract_text(path)
        chunks == Chunks(text, w.chunker)
        start_id == get_max_id(w.db) + 1
        done == LoopTo(w, path, Len(chunks))
    IN  IF \/ ~FileSystem[path].exists
           \/ check_hash_exists(w.db, compute_file_hash(path))
           \/ Strip(text) = <<>>
        THEN {OnDisk(w.db, w.disk)}
        ELSE {OnDisk(LoopTo(w, path, k).w.db, w.disk) : k \in 0..Len(chunks)}
             \cup IF done.exc # "none" THEN {}
                  ELSE {OnDisk(update_total_chunks(done.w.db, start_id, done.n), files) :
                           files \in IF done.n % SaveEvery = 0 \/ done.n < SaveEvery
                                     THEN SavePoints(done.w.ix, w.disk) ELSE {w.disk}}

\* The on-disk states a crash can leave when it hits an operation started in w
CrashPoints(w) ==
    UNION ({index_file_CrashPoints(w, path) : path \in Paths}
           \cup {delete_by_hash_CrashPoints(w, file_hash) : file_hash \in Hashes}
           \cup {clear_all_CrashPoints(w)})

----------------------------------------------------------------------------
(* AdaptivePipeline and the state of the system *)

VARIABLES
    pipeline,     \* AdaptivePipeline: _current_mode, _mode_switched, _auto_detected
    processor,    \* its StreamingDocumentProcessor: mode, mode_switched, ...
    faiss_index,  \* the processor's LightweightFAISSIndex (in memory)
    db,           \* the files table of lightweight.sqlite3
    disk,         \* lightweight_faiss.bin and lightweight_faiss_ids.pkl
    hist,         \* history kept for the properties
    threads,      \* the index_file call each request thread is executing
    singleton,    \* the module global _lightweight_pipeline, its lock, its callers
    quantizer     \* a call of ONNXEmbedder.quantize_binary: its argument and locals

vars == <<pipeline, processor, faiss_index, db, disk, hist, threads, singleton, quantizer>>

\* Bounds of the model
MaxVectors == 3

MaxFaults == 1

MaxId == 3

MaxK == 2

\* A plan gives the outcome of each of the first chunks an operation attempts.
PlanLen == Len(Chunks(Text1, "eco"))

AllOk == [i \in 1..PlanLen |-> "ok"]

Faults(plan) == Cardinality({i \in 1..PlanLen : plan[i] # "ok"})

\* The plans that keep the faults of the whole run within MaxFaults
Plans == {p \in [1..PlanLen -> Outcomes] : hist.faults + Faults(p) <= MaxFaults}

Queries == {<<"c", "a">>, <<"b">>}

\* The record the processor operators work on, from the state
World ==
    [mode |-> processor.mode, mode_switched |-> processor.mode_switched,
     oom_protection |-> processor.oom_protection,
     embedder |-> processor.embedder, chunker |-> processor.chunker,
     ix |-> faiss_index, db |-> db, disk |-> disk,
     eco_switches |-> hist.eco_switches, faults |-> hist.faults, pos |-> 1]

\* The state after an operation that left w
Becomes(w) ==
    /\ processor' = [mode |-> w.mode, mode_switched |-> w.mode_switched,
                     oom_protection |-> w.oom_protection,
                     embedder |-> w.embedder, chunker |-> w.chunker]
    /\ faiss_index' = w.ix
    /\ db' = w.db
    /\ disk' = w.disk
    /\ hist' = [eco_switches |-> w.eco_switches, faults |-> w.faults]
    /\ UNCHANGED <<threads, singleton, quantizer>>

\* The request threads of the API server (sync endpoints run in a thread pool)
Threads == {"t1", "t2"}

\* A thread that executes no call
IdleThread == [pc |-> "idle", path |-> "", start_id |-> 0, i |-> 0, n |-> 0]

\* A caller of get_lightweight_pipeline / reset_lightweight_pipeline at rest
IdleCaller == [pc |-> "idle", op |-> "none", returned |-> "nothing", live |-> FALSE]

\* _lightweight_pipeline = None, _pipeline_lock free, no instance constructed
NoSingleton ==
    [instance |-> "None", constructed |-> 0, closed |-> {}, lock |-> "free",
     callers |-> [t \in Threads |-> IdleCaller]]

\* AdaptivePipeline(mode=None, cache_dir) over an empty cache directory, in the
\* mode the hardware detector recommends
Constructed(mode) ==
    /\ pipeline = [current_mode |-> mode, mode_switched |-> FALSE,
                   auto_detected |-> TRUE]
    /\ processor = [mode |-> mode, mode_switched |-> FALSE, oom_protection |-> TRUE,
                    embedder |-> mode, chunker |-> mode]
    /\ faiss_index = OpenIndex(mode, NoDisk)
    /\ db = EmptyTable
    /\ disk = NoDisk
    /\ hist = [eco_switches |-> 0, faults |-> 0]
    /\ threads = [t \in Threads |-> IdleThread]
    /\ singleton = NoSingleton

\* No call of quantize_binary outside encode() is in progress
NoQuantizerCall == [pc |-> "idle", embeddings |-> <<>>, packed |-> <<>>, bits |-> <<>>]

Init ==
    \E mode \in Modes :
        /\ Constructed(mode)
        /\ quantizer = NoQuantizerCall

\* Whether index_file(path) reaches the chunk loop
ReachesChunkLoop(path) ==
    /\ FileSystem[path].exists
    /\ ~check_hash_exists(db, compute_file_hash(path))
    /\ Strip(extract_text(path)) # <<>>

\* The chunks index_directory(dirpath) has to embed
DirectoryChunks(dirpath) ==
    SumSeq([i \in 1..Len(DirListing(dirpath)) |->
               IF ReachesChunkLoop(DirListing(dirpath)[i])
               THEN Len(Chunks(extract_text(DirListing(dirpath)[i]), processor.chunker))
               ELSE 0])

\* The pipeline's fields after an index_file or index_directory that returned result
TrackModeSwitch(p, result) ==
    IF result.oom_switched
    THEN [p EXCEPT !.mode_switched = TRUE, !.current_mode = "eco"]
    ELSE p

\* AdaptivePipeline.index_file(filepath): [w, pipeline, result]
pipeline_index_file(w, p, path, plan) ==
    With(processor_index_file(w, path, plan), LAMBDA r :
        [w |-> r.w, pipeline |-> TrackModeSwitch(p, r.result), result |-> r.result])

\* AdaptivePipeline.index_directory(dirpath): [w, pipeline, result]; the result's
\* files_indexed is getattr(result, 'files_indexed', 0) of a ProcessingResult,
\* which has no such field
pipeline_index_directory(w, p, dirpath, plan) ==
    With(processor_index_directory(w, dirpath, plan), LAMBDA r :
        [w |-> r.w, pipeline |-> TrackModeSwitch(p, r.result),
         result |-> [success |-> r.result.success, files_indexed |-> 0,
                     chunks_inserted |-> r.result.chunks_inserted,
                     mode |-> r.result.mode, oom_switched |-> r.result.oom_switched,
                     message |-> r.result.message, error |-> r.result.error]])

\* AdaptivePipeline.search(query, k)
pipeline_search(w, p, query, k) ==
    With(processor_search(w, query, k), LAMBDA r :
        [success |-> ~r.raised, results |-> r.results, count |-> Len(r.results),
         mode |-> p.current_mode])

\* _needs_index_conversion
needs_index_conversion(old_mode, new_mode) == UseBinary(old_mode) # UseBinary(new_mode)

\* switch_mode() whose handler does not re-initialise in the previous mode:
\* _init_mode has already assigned _current_mode when the constructor raises
switch_mode_NoRollback(w, p, mode_string, init_fails) ==
    LET new_mode == Lower(mode_string) IN
    IF new_mode \notin Modes
    THEN [w |-> w, pipeline |-> p,
          result |-> [success |-> FALSE, error |-> "Invalid mode"]]
    ELSE IF new_mode = p.current_mode
    THEN [w |-> w, pipeline |-> p,
          result |-> [success |-> TRUE, previous_mode |-> p.current_mode,
                      new_mode |-> new_mode, message |-> "Already in mode",
                      index_converted |-> FALSE]]
    ELSE IF ~init_fails
    THEN [w |-> NewProcessor(new_mode, w),
          pipeline |-> [p EXCEPT !.current_mode = new_mode, !.auto_detected = FALSE],
          result |-> [success |-> TRUE, previous_mode |-> p.current_mode,
                      new_mode |-> new_mode, message |-> "Switched",
                      index_converted |->
                          needs_index_conversion(p.current_mode, new_mode)]]
    ELSE [w |-> w, pipeline |-> [p EXCEPT !.current_mode = new_mode],
          result |-> [success |-> FALSE, error |-> "Failed to switch mode"]]

\* switch_mode() without the early return for new_mode == current mode
switch_mode_NoShortcut(w, p, mode_string, init_fails) ==
    LET new_mode == Lower(mode_string) IN
    IF new_mode \notin Modes
    THEN [w |-> w, pipeline |-> p,
          result |-> [success |-> FALSE, error |-> "Invalid mode"]]
    ELSE IF ~init_fails
    THEN [w |-> NewProcessor(new_mode, w),
          pipeline |-> [p EXCEPT !.current_mode = new_mode, !.auto_detected = FALSE],
          result |-> [success |-> TRUE, previous_mode |-> p.current_mode,
                      new_mode |-> new_mode, message |-> "Switched",
                      index_converted |->
                          needs_index_conversion(p.current_mode, new_mode)]]
    ELSE [w |-> NewProcessor(p.current_mode, w), pipeline |-> p,
          result |-> [success |-> FALSE, error |-> "Failed to switch mode"]]

\* switch_mode() without the check of the mode string: _init_mode takes
\* 'balanced' for a string that names no mode
switch_mode_NoValidation(w, p, mode_string, init_fails) ==
    LET new_mode == IF Lower(mode_string) \in Modes THEN Lower(mode_string)
                    ELSE "balanced"
    IN  IF new_mode = p.current_mode
        THEN [w |-> w, pipeline |-> p,
              result |-> [success |-> TRUE, previous_mode |-> p.current_mode,
                          new_mode |-> new_mode, message |-> "Already in mode",
                          index_converted |-> FALSE]]
        ELSE IF ~init_fails
        THEN [w |-> NewProcessor(new_mode, w),
              pipeline |-> [p EXCEPT !.current_mode = new_mode, !.auto_detected = FALSE],
              result |-> [success |-> TRUE, previous_mode |-> p.current_mode,
                          new_mode |-> new_mode, message |-> "Switched",
                          index_converted |->
                              needs_index_conversion(p.current_mode, new_mode)]]
        ELSE [w |-> NewProcessor(p.current_mode, w), pipeline |-> p,
              result |-> [success |-> FALSE, error |-> "Failed to switch mode"]]

\* AdaptivePipeline.switch_mode(new_mode): [w, pipeline, result]; init_fails: the
\* construction of the processor in the new mode raises, and the handler
\* re-initialises in the previous mode
switch_mode(w, p, mode_string, init_fails) ==
    LET new_mode == Lower(mode_string) IN
    IF new_mode \notin Modes
    THEN [w |-> w, pipeline |-> p,
          result |-> [success |-> FALSE, error |-> "Invalid mode"]]
    ELSE IF new_mode = p.current_mode
    THEN [w |-> w, pipeline |-> p,
          result |-> [success |-> TRUE, previous_mode |-> p.current_mode,
                      new_mode |-> new_mode, message |-> "Already in mode",
                      index_converted |-> FALSE]]
    ELSE IF ~init_fails
    THEN [w |-> NewProcessor(new_mode, w),
          pipeline |-> [p EXCEPT !.current_mode = new_mode, !.auto_detected = FALSE],
          result |-> [success |-> TRUE, previous_mode |-> p.current_mode,
                      new_mode |-> new_mode, message |-> "Switched",
                      index_converted |->
                          needs_index_conversion(p.current_mode, new_mode)]]
    ELSE [w |-> NewProcessor(p.current_mode, w), pipeline |-> p,
          result |-> [success |-> FALSE, error |-> "Failed to switch mode"]]

\* AdaptivePipeline.index_file(filepath)
IndexFile(path, plan) ==
    /\ plan # AllOk => ReachesChunkLoop(path)
    /\ \E n \in {Len(Chunks(extract_text(path), processor.chunker))} :
           /\ ntotal(faiss_index) + n <= MaxVectors
           /\ get_max_id(db) + n <= MaxId
    /\ \E r \in {pipeline_index_file(World, pipeline, path, plan)} :
           Becomes([r.w EXCEPT !.faults = @ + Faults(plan)]) /\ pipeline' = r.pipeline

\* AdaptivePipeline.index_directory(dirpath)
IndexDirectory(dirpath, plan) ==
    /\ plan # AllOk => DirExists(dirpath)
    /\ \E n \in {DirectoryChunks(dirpath)} :
           /\ ntotal(faiss_index) + n <= MaxVectors
           /\ get_max_id(db) + n <= MaxId
    /\ \E r \in {pipeline_index_directory(World, pipeline, dirpath, plan)} :
           Becomes([r.w EXCEPT !.faults = @ + Faults(plan)]) /\ pipeline' = r.pipeline

\* AdaptivePipeline.search(query, k): reads only
Search(query, k) ==
    /\ pipeline_search(World, pipeline, query, k).success \in BOOLEAN
    /\ UNCHANGED vars

\* LightweightFileManager.fetch_by_id(ids): reads only
FetchById(ids) ==
    /\ Len(fetch_by_id(db, ids)) <= Len(ids)
    /\ UNCHANGED vars

\* AdaptivePipeline.delete_by_hash(file_hash)
DeleteByHash(file_hash) ==
    /\ Becomes(processor_delete_by_hash(World, file_hash).w)
    /\ UNCHANGED pipeline

\* AdaptivePipeline.clear_index()
ClearIndex ==
    /\ Becomes(clear_all(World))
    /\ UNCHANGED pipeline

\* AdaptivePipeline.switch_mode(new_mode)
SwitchMode(new_mode, init_fails) ==
    /\ init_fails => Lower(new_mode) \in Modes \ {pipeline.current_mode}
    /\ init_fails => hist.faults < MaxFaults
    /\ \E r \in {switch_mode(World, pipeline, new_mode, init_fails)} :
           /\ Becomes([r.w EXCEPT !.faults = IF init_fails THEN @ + 1 ELSE @])
           /\ pipeline' = r.pipeline

\* close(), then a new AdaptivePipeline over the same cache directory
Reopen(mode) ==
    /\ Becomes([NewProcessor(mode, close(World)) EXCEPT !.eco_switches = 0])
    /\ pipeline' = [current_mode |-> mode, mode_switched |-> FALSE,
                    auto_detected |-> TRUE]

Next ==
    \/ \E path \in Paths, plan \in Plans : IndexFile(path, plan)
    \/ \E dirpath \in Dirs, plan \in Plans : IndexDirectory(dirpath, plan)
    \/ \E query \in Queries, k \in 1..MaxK : Search(query, k)
    \/ \E i \in DOMAIN db, j \in DOMAIN db : FetchById(<<i, j>>)
    \/ \E file_hash \in Hashes : DeleteByHash(file_hash)
    \/ ClearIndex
    \/ \E new_mode \in ModeStrings, init_fails \in BOOLEAN :
           SwitchMode(new_mode, init_fails)
    \/ \E mode \in Modes : Reopen(mode)

Spec == Init /\ [][Next]_vars

----------------------------------------------------------------------------
(* Properties.  A property of an operation is stated over every reachable  *)
(* state the operation can be called in: the operation is applied to the   *)
(* state (World) with each of its inputs and its outcome is examined.      *)

\* The slots of index ix that map to chunk id x
SlotsOf(ix, x) == {s \in DOMAIN ix.id_map : ix.id_map[s] = x}

\* The chunk ids of the slots added to an index between before and after
NewIds(before, after) ==
    {after.id_map[s] : s \in {t \in DOMAIN after.id_map : t >= before.next_internal_id}}

\* The record w at the start of the next operation
Again(w) == [w EXCEPT !.pos = 1]

\* C1: at every quiescent point each chunk id present in the metadata store is
\* mapped by exactly one slot of the live vector index.
C1_EveryRowHasOneSlot ==
    \A i \in DOMAIN db : Cardinality(SlotsOf(faiss_index, i)) = 1

\* C2: whatever fails between the steps of a chunk (embedding error, memory
\* error, failed metadata insert), once index_file has returned no slot it added
\* to the vector index is mapped to a chunk id that has no metadata row.
C2_NoSlotWithoutRow ==
    \A path \in Paths, plan \in Plans :
        LET after == pipeline_index_file(World, pipeline, path, plan).w
        IN  NewIds(faiss_index, after.ix) \subseteq DOMAIN after.db

\* C3: in no reachable state do two slots of the vector index map to the same
\* chunk id.
C3_OneSlotPerId ==
    \A s \in DOMAIN faiss_index.id_map, t \in DOMAIN faiss_index.id_map :
        faiss_index.id_map[s] = faiss_index.id_map[t] => s = t

\* C4: chunk ids are unique and increasing over the whole history of the store:
\* the ids given to the chunks of a file ingested after another file was ingested
\* and then deleted (by delete_by_hash or by clear_index) are all greater than
\* the ids the chunks of the deleted file were given.
C4_IdsNeverReissued ==
    \A path \in Paths, other \in Paths, by_clear \in BOOLEAN :
        LET first == pipeline_index_file(World, pipeline, path, AllOk)
            removed == IF by_clear THEN clear_all(Again(first.w))
                       ELSE processor_delete_by_hash(Again(first.w),
                                                     compute_file_hash(path)).w
            second == pipeline_index_file(removed, first.pipeline, other, AllOk)
        IN  compute_file_hash(path) # compute_file_hash(other) =>
                \A x \in NewIds(faiss_index, first.w.ix),
                   y \in NewIds(removed.ix, second.w.ix) : x < y

\* C5: every processor search returns its results in the index's distance order
\* (scores never increase along the list), and each result carries the
\* file_name, file_path and text of the metadata row whose id is the result's id.
C5_SearchResultsConsistent ==
    \A query \in Queries, k \in 1..MaxK :
        LET results == processor_search(World, query, k).results
        IN  /\ \A n \in 1..(Len(results) - 1) : results[n].score >= results[n + 1].score
            /\ \A n \in 1..Len(results) :
                   /\ results[n].id \in DOMAIN db
                   /\ results[n].file_name = db[results[n].id].file_name
                   /\ results[n].file_path = db[results[n].id].file_path
                   /\ results[n].text = db[results[n].id].text

\* C6: fetch_by_id(ids) returns the records in the order of the input ids, for
\* every list of two different existing ids.
C6_FetchByIdKeepsInputOrder ==
    \A i \in DOMAIN db, j \in DOMAIN db :
        i # j => LET rows == fetch_by_id(db, <<i, j>>)
                 IN  Len(rows) = 2 /\ rows[1].id = i /\ rows[2].id = j

\* C7: after an index_file that reported success with chunks inserted, an
\* index_file on the same bytes (the same path or another path with the same
\* content) reports chunks_inserted = 0 and leaves the number of rows of the
\* metadata store and the number of vectors of the index unchanged.
C7_ReingestInsertsNothing ==
    \A path \in Paths, again \in Paths, plan \in Plans :
        LET first == pipeline_index_file(World, pipeline, path, plan)
            second == pipeline_index_file(Again(first.w), first.pipeline, again, AllOk)
        IN  (/\ FileSystem[again].exists
             /\ compute_file_hash(again) = compute_file_hash(path)
             /\ first.result.success
             /\ first.result.chunks_inserted > 0)
            => /\ second.result.chunks_inserted = 0
               /\ count_chunks(second.w.db) = count_chunks(first.w.db)
               /\ ntotal(second.w.ix) = ntotal(first.w.ix)

\* C8: after a file was ingested with success, delete_by_hash of its hash returns
\* the number of chunks the file had, and a search that follows returns none of
\* the file's chunk ids.
C8_DeleteRemovesFileFromSearch ==
    \A path \in Paths, plan \in Plans :
        LET ingested == pipeline_index_file(World, pipeline, path, plan)
            file_ids == NewIds(faiss_index, ingested.w.ix)
            deleted == processor_delete_by_hash(Again(ingested.w),
                                                compute_file_hash(path))
        IN  (ReachesChunkLoop(path) /\ ingested.result.success)
            => /\ deleted.deleted = Cardinality(file_ids)
               /\ \A query \in Queries, k \in 1..MaxK :
                      LET results == processor_search(deleted.w, query, k).results
                      IN  \A n \in 1..Len(results) : results[n].id \notin file_ids

\* C9: search(query, k) of the vector index returns at most k results, in
\* non-decreasing distance order, in every state of the index (empty, fewer than
\* k vectors, after logical removals) and for a query of either representation.
C9_SearchAtMostKSorted ==
    \A query \in Queries, embedder \in Modes, k \in 1..MaxK :
        LET hits == search(faiss_index, encode(<<query>>, embedder), k).hits
        IN  /\ Len(hits) <= k
            /\ \A n \in 1..(Len(hits) - 1) : hits[n].dist <= hits[n + 1].dist

\* C9 happens: the index holds a slot whose mapping was removed and a search
\* for k = 2 returns two results at different distances.
C9_SearchReturnsTwoAfterRemoval ==
    /\ Cardinality(DOMAIN faiss_index.id_map) < ntotal(faiss_index)
    /\ \E query \in Queries :
           LET found == search(faiss_index, encode(<<query>>, processor.embedder), 2)
           IN  /\ ~found.raised
               /\ Len(found.hits) = 2
               /\ found.hits[1].dist < found.hits[2].dist

\* C10: _switch_to_eco_mode is executed at most once in the lifetime of a
\* pipeline, whatever memory failures occur.
C10_AtMostOneDowngrade == hist.eco_switches <= 1

\* The words of text s (str.split()), as a set
WordsOf(s) == Range(SplitWords(s))

\* The rows of the files table db that belong to the file with hash file_hash
RowsOf(table, file_hash) == {i \in DOMAIN table : table[i].file_hash = file_hash}

\* C11: a MemoryError during index_file is handled by the mode downgrade only
\* when the processor is not yet in eco mode; when the processor is already in
\* eco mode, or has already downgraded, no downgrade is executed and index_file
\* reports a failure: success = false with an error.
C11_OomInEcoIsFailure ==
    \A path \in Paths, plan \in Plans :
        LET r == pipeline_index_file(World, pipeline, path, plan)
        IN  (/\ ReachesChunkLoop(path)
             /\ plan[1] = "oom"
             /\ (processor.mode = "eco" \/ processor.mode_switched))
            => /\ ~r.result.success
               /\ r.result.error # "None"
               /\ r.w.eco_switches = hist.eco_switches

\* C12: when a MemoryError interrupts a file's ingestion and the processor
\* downgrades, the retry processes the unprocessed remainder of the text: once
\* index_file has returned success, every word of the file's text is in a row of
\* the file, and no two rows of the file hold the same text.
C12_RetryProcessesRemainder ==
    \A path \in Paths, plan \in Plans :
        LET r == pipeline_index_file(World, pipeline, path, plan)
            rows == RowsOf(r.w.db, compute_file_hash(path))
        IN  (/\ ReachesChunkLoop(path)
             /\ r.w.eco_switches > hist.eco_switches
             /\ r.result.success)
            => /\ \A word \in WordsOf(extract_text(path)) :
                      \E i \in rows : word \in WordsOf(r.w.db[i].text)
               /\ \A i \in rows, j \in rows :
                      r.w.db[i].text = r.w.db[j].text => i = j

\* C13: in every reachable state the processor's embedder produces the
\* representation of the vector index's backend (binary or float).
C13_EmbedderMatchesBackend ==
    UseBinary(processor.embedder) = faiss_index.use_binary

\* C14: when switch_mode(new) fails while re-initialising the processor in the
\* new mode, the pipeline rolls back: after the call the pipeline's current mode
\* and the processor's mode are the pipeline's prior mode, and the result has
\* success = false with an error.
C14_FailedSwitchRollsBack ==
    \A new_mode \in Modes \ {pipeline.current_mode} :
        LET r == switch_mode(World, pipeline, new_mode, TRUE)
        IN  /\ r.pipeline.current_mode = pipeline.current_mode
            /\ r.w.mode = pipeline.current_mode
            /\ ~r.result.success
            /\ "error" \in DOMAIN r.result

\* C14 happens: the store holds rows, an OOM downgrade has left the processor in
\* another mode than the pipeline's current mode, and a switch to a third mode
\* fails and puts the processor back into the pipeline's current mode.
C14_RollbackAfterDowngrade ==
    /\ db # EmptyTable
    /\ processor.mode # pipeline.current_mode
    /\ \E new_mode \in Modes \ {pipeline.current_mode, processor.mode} :
           LET r == switch_mode(World, pipeline, new_mode, TRUE)
           IN  /\ ~r.result.success
               /\ r.w.mode = pipeline.current_mode
               /\ r.w.mode # processor.mode

\* C15: switch_mode(m) called twice in a row reports "already in m" on the
\* second call: a success with index_converted = false that leaves the
\* processor, the index, the metadata store and auto_detected unchanged.
C15_SecondSwitchIsNoOp ==
    \A m \in Modes :
        LET first == switch_mode(World, pipeline, m, FALSE)
            second == switch_mode(first.w, first.pipeline, m, FALSE)
        IN  /\ second.result.success
            /\ second.result.message = "Already in mode"
            /\ second.result.new_mode = m
            /\ ~second.result.index_converted
            /\ second.w = first.w
            /\ second.pipeline = first.pipeline

\* C15 happens: the pipeline was switched by hand to its current mode, the
\* store holds rows and vectors, and one more switch to the current mode
\* reports "already in" and changes nothing.
C15_AlreadyInModeWithData ==
    /\ ~pipeline.auto_detected
    /\ db # EmptyTable
    /\ ntotal(faiss_index) > 0
    /\ LET second == switch_mode(World, pipeline, pipeline.current_mode, FALSE)
       IN  /\ second.result.message = "Already in mode"
           /\ second.w = World

\* C18: save_cache followed by a load into an index of the same backend and
\* dimension preserves (ntotal, id_map, next_internal_id) exactly, for every
\* index state reachable by add, remove and clear.
C18_PersistLoadRoundTrip ==
    \A mode \in Modes :
        UseBinary(mode) = faiss_index.use_binary
        => LET loaded == load_cache(NewIndex(mode), save_cache(faiss_index))
           IN  /\ ntotal(loaded) = ntotal(faiss_index)
               /\ loaded.vecs = faiss_index.vecs
               /\ loaded.id_map = faiss_index.id_map
               /\ loaded.next_internal_id = faiss_index.next_internal_id

\* C18 happens: an index with two vectors, one of whose mappings was removed,
\* is saved and loaded back.
C18_RoundTripAfterRemove ==
    /\ ntotal(faiss_index) = 2
    /\ Cardinality(DOMAIN faiss_index.id_map) = 1
    /\ load_cache(NewIndex(faiss_index.mode), save_cache(faiss_index)).next_internal_id = 2

\* A dimension other than DIM, for an index constructed with dim # 384
OtherDim == 2 * DIM

\* C19: on load of a snapshot whose backend (binary or float) or dimension does
\* not match the index being constructed, the loader discards the snapshot and
\* starts empty: ntotal = 0, id_map empty, next_internal_id = 0.
C19_MismatchedSnapshotDiscarded ==
    \A mode \in Modes, dim \in {DIM, OtherDim} :
        LET constructed == [NewIndex(mode) EXCEPT !.dim = dim]
            loaded == load_cache(constructed, disk)
        IN  (/\ disk.bin.exists
             /\ \/ disk.bin.use_binary # constructed.use_binary
                \/ disk.bin.dim # dim)
            => /\ ntotal(loaded) = 0
               /\ loaded.id_map = EmptyMap
               /\ loaded.next_internal_id = 0

\* C20: remove(ids) only erases the id mappings: it returns the number of
\* mappings erased, leaves ntotal and next_internal_id unchanged, leaves the
\* mappings of all other ids unchanged, and a later add assigns a slot number
\* that was not used before.
C20_RemoveOnlyErasesMappings ==
    \A i \in 1..MaxId, j \in 1..MaxId :
        LET erased == {s \in DOMAIN faiss_index.id_map : faiss_index.id_map[s] \in {i, j}}
            removed == remove(faiss_index, <<i, j>>)
            added == add(removed.ix, encode(<<Text2>>, faiss_index.mode), <<MaxId + 1>>)
        IN  /\ removed.removed_count = Cardinality(erased)
            /\ DOMAIN removed.ix.id_map = DOMAIN faiss_index.id_map \ erased
            /\ \A s \in DOMAIN removed.ix.id_map :
                   removed.ix.id_map[s] = faiss_index.id_map[s]
            /\ removed.ix.vecs = faiss_index.vecs
            /\ ntotal(removed.ix) = ntotal(faiss_index)
            /\ removed.ix.next_internal_id = faiss_index.next_internal_id
            /\ ~added.raised
            /\ \A s \in DOMAIN added.ix.id_map \ DOMAIN removed.ix.id_map :
                   /\ s \notin 0..(faiss_index.next_internal_id - 1)
                   /\ s = ntotal(faiss_index)

\* C20 happens: the mapping of slot 0 was removed and a later add was given
\* slot 1, and removing the id of slot 1 erases one mapping.
C20_AddAfterRemoveTakesNewSlot ==
    /\ DOMAIN faiss_index.id_map = {1}
    /\ ntotal(faiss_index) = 2
    /\ remove(faiss_index, <<faiss_index.id_map[1]>>).removed_count = 1

\* No slot of the snapshot on disk is mapped to a chunk id without a row in the
\* files table on disk.
NoDanglingSlot(c) ==
    \A s \in DOMAIN c.disk.pkl.id_map : c.disk.pkl.id_map[s] \in DOMAIN c.db

\* C16: a crash at any point between checkpoints (during ingestion,
\* delete_by_hash or clear_index) never leaves on disk an index snapshot with a
\* slot mapped to a chunk id that has no row in the on-disk store: from an
\* on-disk state without such a slot, every crash point of every operation is
\* an on-disk state without such a slot.
C16_CrashLeavesNoDanglingSlot ==
    NoDanglingSlot(OnDisk(db, disk))
    => \A c \in CrashPoints(World) : NoDanglingSlot(c)

\* The number of vectors of the index ix that the snapshot on disk lacks
Unsaved(ix, files) ==
    Cardinality({s \in 1..ntotal(ix) :
        ~ /\ files.bin.exists
          /\ files.bin.use_binary = ix.use_binary
          /\ s <= Len(files.bin.vecs)
          /\ files.bin.vecs[s] = ix.vecs[s]})

\* C17: during ingestion of a file the snapshot is saved every SaveEvery chunks
\* and at completion: when index_file returns success for a file of any chunk
\* count, and when the loop goes on to the next chunk after a positive multiple
\* of SaveEvery chunks were inserted, the snapshot on disk lacks fewer than
\* SaveEvery of the vectors added so far.
C17_SnapshotEverySaveEveryChunks ==
    \A path \in Paths :
        ReachesChunkLoop(path)
        => /\ \A plan \in Plans :
                  LET r == pipeline_index_file(World, pipeline, path, plan)
                  IN  r.result.success => Unsaved(r.w.ix, r.w.disk) < SaveEvery
           /\ \A k \in 1..(Len(Chunks(extract_text(path), processor.chunker)) - 1) :
                  LET at == LoopTo(World, path, k)
                  IN  (at.exc = "none" /\ at.n > 0 /\ at.n % SaveEvery = 0)
                      => Unsaved(at.w.ix, at.w.disk) < SaveEvery

----------------------------------------------------------------------------
(* Concurrent index_file calls. The endpoints of main.py are sync functions, *)
(* which the server runs in a thread pool; AdaptivePipeline.index_file and   *)
(* StreamingDocumentProcessor.index_file take no lock, so the calls of two   *)
(* threads interleave between the statements that touch the table and the   *)
(* index. Each step below is one such statement.                             *)

\* The non-blank chunks the thread's file yields
ThreadChunks(t) ==
    SelectSeq(Chunks(extract_text(threads[t].path), processor.chunker),
              LAMBDA c : Strip(c) # <<>>)

\* The chunks a call in progress may still add
Pending(t) ==
    IF threads[t].pc = "idle" THEN 0
    ELSE Len(Chunks(extract_text(threads[t].path), processor.chunker)) - threads[t].n

\* lightweight_index_file: the thread enters pipeline.index_file(path)
CallIndexFile(t, path) ==
    /\ threads[t].pc = "idle"
    /\ ntotal(faiss_index) + Pending(CHOOSE u \in Threads : u # t)
           + Len(Chunks(extract_text(path), processor.chunker)) <= MaxVectors
    /\ threads' = [threads EXCEPT ![t] = [IdleThread EXCEPT !.pc = "check_hash",
                                                             !.path = path]]
    /\ UNCHANGED <<pipeline, processor, faiss_index, db, disk, hist, singleton, quantizer>>

\* index_file up to the chunk loop: file missing, duplicate hash or blank text
\* return at once
CheckHash(t) ==
    /\ threads[t].pc = "check_hash"
    /\ threads' = [threads EXCEPT ![t] =
          IF \/ ~FileSystem[threads[t].path].exists
             \/ check_hash_exists(db, compute_file_hash(threads[t].path))
             \/ Strip(extract_text(threads[t].path)) = <<>>
             \/ Len(ThreadChunks(t)) = 0
          THEN IdleThread
          ELSE [@ EXCEPT !.pc = "get_max_id"]]
    /\ UNCHANGED <<pipeline, processor, faiss_index, db, disk, hist, singleton, quantizer>>

\* start_id = self.file_manager.get_max_id() + 1
GetMaxId(t) ==
    /\ threads[t].pc = "get_max_id"
    /\ threads' = [threads EXCEPT ![t] =
          [@ EXCEPT !.pc = "add", !.start_id = get_max_id(db) + 1, !.i = 1, !.n = 0]]
    /\ UNCHANGED <<pipeline, processor, faiss_index, db, disk, hist, singleton, quantizer>>

\* embedder.encode([chunk_text]) and faiss_index.add(embedding, [current_id]);
\* an exception ends the call with a failure result
AddVector(t) ==
    /\ threads[t].pc = "add"
    /\ \E added \in {add(faiss_index,
                         encode(<<ThreadChunks(t)[threads[t].i]>>, processor.embedder),
                         <<threads[t].start_id + threads[t].n>>)} :
           /\ faiss_index' = added.ix
           /\ threads' = [threads EXCEPT ![t] =
                 IF added.raised THEN IdleThread ELSE [@ EXCEPT !.pc = "insert"]]
    /\ UNCHANGED <<pipeline, processor, db, disk, hist, singleton, quantizer>>

\* file_manager.insert_chunk({...}); its result is not looked at
InsertRow(t) ==
    /\ threads[t].pc = "insert"
    /\ db' = insert_chunk(db,
                 [id |-> threads[t].start_id + threads[t].n,
                  file_hash |-> compute_file_hash(threads[t].path),
                  file_path |-> threads[t].path,
                  file_name |-> FileSystem[threads[t].path].name,
                  text |-> ThreadChunks(t)[threads[t].i],
                  chunk_index |-> threads[t].n,
                  total_chunks |-> -1],
                 FALSE).db
    /\ threads' = [threads EXCEPT ![t] =
          [@ EXCEPT !.pc = IF threads[t].i = Len(ThreadChunks(t)) THEN "finish" ELSE "add",
                    !.i = @ + 1, !.n = @ + 1]]
    /\ UNCHANGED <<pipeline, processor, faiss_index, disk, hist, singleton, quantizer>>

\* after the loop: _update_total_chunks, save_cache, return
Finish(t) ==
    /\ threads[t].pc = "finish"
    /\ db' = update_total_chunks(db, threads[t].start_id, threads[t].n)
    /\ disk' = IF threads[t].n % SaveEvery = 0 \/ threads[t].n < SaveEvery
               THEN save_cache(faiss_index) ELSE disk
    /\ threads' = [threads EXCEPT ![t] = IdleThread]
    /\ UNCHANGED <<pipeline, processor, faiss_index, hist, singleton, quantizer>>

ConcurrentNext ==
    \E t \in Threads :
        \/ \E path \in Paths : CallIndexFile(t, path)
        \/ CheckHash(t)
        \/ GetMaxId(t)
        \/ AddVector(t)
        \/ InsertRow(t)
        \/ Finish(t)

ConcurrentSpec == Init /\ [][ConcurrentNext]_vars

\* The thread has read get_max_id() and has not yet returned
InChunkLoop(t) == threads[t].pc \in {"add", "insert", "finish"}

\* The chunk ids the thread has handed to the index so far
AssignedIds(t) ==
    IF ~InChunkLoop(t) THEN {}
    ELSE threads[t].start_id ..
         (threads[t].start_id + threads[t].n - (IF threads[t].pc = "insert" THEN 0 ELSE 1))

\* C21: concurrent operations on the pipeline run under a mutex held by the
\* pipeline: two concurrent index_file calls never interleave their chunk
\* loops, and never assign the same chunk id to chunks of two different files.
C21_IndexFileCallsExclusive ==
    \A t \in Threads, u \in Threads :
        t # u => /\ ~(InChunkLoop(t) /\ InChunkLoop(u))
                 /\ threads[t].path # threads[u].path
                        => AssignedIds(t) \cap AssignedIds(u) = {}

----------------------------------------------------------------------------
(* The singleton: get_lightweight_pipeline and reset_lightweight_pipeline    *)
(* called from several threads. Each step is one access to the global or to  *)
(* the lock. Instances are named by their construction number.               *)

\* The instances constructed in a run
MaxInstances == 2

InstanceName(n) == IF n = 1 THEN "p1" ELSE IF n = 2 THEN "p2" ELSE "p3"

OtherStateUnchanged ==
    UNCHANGED <<pipeline, processor, faiss_index, db, disk, hist, threads, quantizer>>

CallerStep(t, caller) ==
    [singleton EXCEPT !.callers = [@ EXCEPT ![t] = caller]]

\* a thread calls get_lightweight_pipeline() or reset_lightweight_pipeline()
CallSingleton(t, op) ==
    /\ singleton.callers[t].pc = "idle"
    /\ singleton.constructed < MaxInstances
    /\ singleton' = CallerStep(t, [IdleCaller EXCEPT
                        !.pc = IF op = "get" THEN "acquire" ELSE "reset_test",
                        !.op = op])
    /\ OtherStateUnchanged

\* with _pipeline_lock: (enter)
GetAcquire(t) ==
    /\ singleton.callers[t].pc = "acquire"
    /\ singleton.lock = "free"
    /\ singleton' = [CallerStep(t, [singleton.callers[t] EXCEPT !.pc = "construct"])
                        EXCEPT !.lock = t]
    /\ OtherStateUnchanged

\* if _lightweight_pipeline is None: _lightweight_pipeline = AdaptivePipeline(...)
GetConstruct(t) ==
    /\ singleton.callers[t].pc = "construct"
    /\ singleton' =
          [CallerStep(t, [singleton.callers[t] EXCEPT !.pc = "release"]) EXCEPT
              !.instance = IF @ = "None"
                           THEN InstanceName(singleton.constructed + 1) ELSE @,
              !.constructed = IF singleton.instance = "None" THEN @ + 1 ELSE @]
    /\ OtherStateUnchanged

\* with _pipeline_lock: (exit)
GetRelease(t) ==
    /\ singleton.callers[t].pc = "release"
    /\ singleton' = [CallerStep(t, [singleton.callers[t] EXCEPT !.pc = "return"])
                        EXCEPT !.lock = "free"]
    /\ OtherStateUnchanged

\* return _lightweight_pipeline: the global is read after the lock was released
GetReturn(t) ==
    /\ singleton.callers[t].pc = "return"
    /\ singleton' = CallerStep(t, [singleton.callers[t] EXCEPT
                        !.pc = "idle",
                        !.returned = singleton.instance,
                        !.live = singleton.instance \notin singleton.closed \cup {"None"}])
    /\ OtherStateUnchanged

\* if _lightweight_pipeline:
ResetTest(t) ==
    /\ singleton.callers[t].pc = "reset_test"
    /\ singleton' = CallerStep(t, [singleton.callers[t] EXCEPT
                        !.pc = IF singleton.instance = "None"
                               THEN "reset_assign" ELSE "reset_close"])
    /\ OtherStateUnchanged

\* _lightweight_pipeline.close(): the global is read again; on None the
\* attribute access raises and the call ends
ResetClose(t) ==
    /\ singleton.callers[t].pc = "reset_close"
    /\ singleton' =
          IF singleton.instance = "None"
          THEN CallerStep(t, [singleton.callers[t] EXCEPT
                   !.pc = "idle", !.returned = "AttributeError"])
          ELSE [CallerStep(t, [singleton.callers[t] EXCEPT !.pc = "reset_assign"])
                   EXCEPT !.closed = @ \cup {singleton.instance}]
    /\ OtherStateUnchanged

\* _lightweight_pipeline = None
ResetAssign(t) ==
    /\ singleton.callers[t].pc = "reset_assign"
    /\ singleton' = [CallerStep(t, [singleton.callers[t] EXCEPT !.pc = "idle"])
                        EXCEPT !.instance = "None"]
    /\ OtherStateUnchanged

SingletonNext ==
    \E t \in Threads :
        \/ \E op \in {"get", "reset"} : CallSingleton(t, op)
        \/ GetAcquire(t)
        \/ GetConstruct(t)
        \/ GetRelease(t)
        \/ GetReturn(t)
        \/ ResetTest(t)
        \/ ResetClose(t)
        \/ ResetAssign(t)

SingletonSpec == Init /\ [][SingletonNext]_vars

\* C22: every get_lightweight_pipeline call returns a live instance, never
\* None and never a pipeline that is closed when it is returned, also when
\* the calls are interleaved with reset_lightweight_pipeline from another
\* thread; and an instance is constructed only while the global is None, so
\* without a reset exactly one is constructed.
C22_GetReturnsLiveSingleton ==
    /\ \A t \in Threads :
           (singleton.callers[t].op = "get" /\ singleton.callers[t].pc = "idle")
           => /\ singleton.callers[t].returned # "None"
              /\ singleton.callers[t].live
    /\ singleton.closed = {} => singleton.constructed <= 1

\* C23: within one file's ingestion the chunks are inserted in chunk_index
\* order with strictly increasing ids: the rows of the file, in the order of
\* their ids, have chunk_index 0, 1, 2, ..., none repeated, for every
\* execution including one with an OOM retry.
C23_ChunkIndexFollowsIds ==
    \A path \in Paths, plan \in Plans :
        LET r == pipeline_index_file(World, pipeline, path, plan)
            ids == Ascending(RowsOf(r.w.db, compute_file_hash(path)))
        IN  ReachesChunkLoop(path)
            => \A n \in 1..Len(ids) : r.w.db[ids[n]].chunk_index = n - 1

\* C24: once index_file has returned success, no row of the file keeps the -1
\* sentinel and every row's total_chunks equals the number of rows of the file.
C24_TotalChunksIsFinalCount ==
    \A path \in Paths, plan \in Plans :
        LET r == pipeline_index_file(World, pipeline, path, plan)
            rows == RowsOf(r.w.db, compute_file_hash(path))
        IN  (ReachesChunkLoop(path) /\ r.result.success)
            => \A i \in rows : /\ r.w.db[i].total_chunks # -1
                               /\ r.w.db[i].total_chunks = Cardinality(rows)

\* Scenario S3 at the scale of the model: five paragraphs of 3 characters
\* separated by blank lines, for max_chunk_size = EcoMaxChunk, overlap = EcoOverlap
S3Paragraph == <<"a", "b", "c">>

S3Text ==
    S3Paragraph \o <<NL, NL>> \o S3Paragraph \o <<NL, NL>> \o S3Paragraph
        \o <<NL, NL>> \o S3Paragraph \o <<NL, NL>> \o S3Paragraph

\* The texts the chunker is applied to: those of the files, and S3
ChunkerTexts == {FileSystem[p].bytes : p \in Paths} \cup {S3Text}

\* A chunk that is one token: no whitespace inside
IsSingleToken(chunk) == \A n \in 1..Len(chunk) : ~IsSpace(chunk[n])

\* C25: every chunk the chunker produces for a non-empty text has at most
\* max_chunk_size characters, except a chunk that is a single indivisible
\* token longer than the limit; five paragraphs just below the limit yield 5
\* chunks within the limit. The chunker is the one of the processor's mode.
C25_ChunkWithinMaxSize ==
    /\ \A text \in ChunkerTexts :
           LET chunks == Chunks(text, processor.chunker)
           IN  \A n \in 1..Len(chunks) :
                   \/ Len(chunks[n])
                          <= create_chunker_for_mode(processor.chunker).max_chunk_size
                   \/ IsSingleToken(chunks[n])
    /\ Len(Chunks(S3Text, processor.chunker)) = 5

\* C26: ingesting a file whose extracted text is empty or whitespace only
\* produces zero chunks and a success result, and leaves the metadata store
\* and the vector index unchanged.
C26_EmptyTextIsSuccess ==
    \A path \in Paths :
        LET r == pipeline_index_file(World, pipeline, path, AllOk)
        IN  (/\ FileSystem[path].exists
             /\ ~check_hash_exists(db, compute_file_hash(path))
             /\ Strip(extract_text(path)) = <<>>)
            => /\ r.result.success
               /\ r.result.chunks_inserted = 0
               /\ r.w.db = db
               /\ r.w.ix = faiss_index

\* index_file(path) as one step of a directory walk: the processor after it
\* (mode_switched set when the result says oom_switched) and the result
WalkStep(w, path, plan) ==
    LET one == processor_index_file(w, path, plan)
    IN  [w |-> IF one.result.oom_switched
               THEN [one.w EXCEPT !.mode_switched = TRUE] ELSE one.w,
         result |-> one.result]

\* The chunks a per-file result adds to the directory's sum
Counted(result) == IF result.success THEN result.chunks_inserted ELSE 0

----------------------------------------------------------------------------
(* Statistics                                                              *)

\* LightweightFAISSIndex.get_stats()
faiss_get_stats(ix) ==
    [total_vectors |-> ntotal(ix), active_mappings |-> Cardinality(DOMAIN ix.id_map),
     next_internal_id |-> ix.next_internal_id, mode |-> ix.mode,
     use_binary |-> ix.use_binary, dim |-> ix.dim]

\* StreamingDocumentProcessor.get_stats()
processor_get_stats(w) ==
    [mode |-> w.mode, mode_switched |-> w.mode_switched,
     oom_protection |-> w.oom_protection,
     chunks_indexed |-> count_chunks(w.db),
     files_indexed |-> count_unique_files(w.db),
     faiss_stats |-> faiss_get_stats(w.ix)]

\* AdaptivePipeline.get_stats(), without the RAM readings
get_stats(w, p) ==
    With(processor_get_stats(w), LAMBDA processor_stats :
        [mode |-> p.current_mode,
         auto_detected |-> p.auto_detected,
         oom_protection |-> processor_stats.oom_protection,
         index_size |-> processor_stats.faiss_stats.total_vectors,
         chunks_indexed |-> processor_stats.chunks_indexed,
         files_indexed |-> processor_stats.files_indexed,
         using_onnx |-> \/ processor_stats.mode # "performance"
                        \/ processor_stats.faiss_stats.mode # "performance",
         using_binary |-> processor_stats.faiss_stats.use_binary])

\* C28: from every state of the index and of the files table, get_stats()
\* after clear_index() reports index_size = 0 and chunks_indexed = 0 (the
\* index.size and index.chunks of the stats dictionary).
C28_ClearedStoreReportsZero ==
    LET stats == get_stats(clear_all(World), pipeline)
    IN  /\ stats.index_size = 0
        /\ stats.chunks_indexed = 0

\* C28 happens: the index holds more vectors than the table has rows (a file
\* was deleted, its vectors stay), both counts are positive, and the
\* statistics after clear_index() are zero.
C28_ClearOfUnevenStore ==
    /\ get_stats(World, pipeline).chunks_indexed > 0
    /\ get_stats(World, pipeline).index_size > get_stats(World, pipeline).chunks_indexed
    /\ get_stats(clear_all(World), pipeline).index_size = 0
    /\ get_stats(clear_all(World), pipeline).chunks_indexed = 0

----------------------------------------------------------------------------
(* The index across a change of representation                             *)

\* Files were ingested in performance mode and nothing else happened to the
\* store: pipeline and processor are in performance mode, the float index
\* holds vectors, and every row of the table is mapped by a slot of the index.
IngestedInPerformance ==
    /\ pipeline.current_mode = "performance"
    /\ processor.mode = "performance"
    /\ processor.embedder = "performance"
    /\ ~faiss_index.use_binary
    /\ db # EmptyTable
    /\ ntotal(faiss_index) > 0
    /\ \A id \in DOMAIN db : \E s \in DOMAIN faiss_index.id_map : faiss_index.id_map[s] = id

\* C29: a switch to another mode reports index_converted = TRUE exactly when
\* one of the two modes is binary (eco, balanced) and the other is float
\* (performance); and after files were ingested in performance mode,
\* switch_mode("eco") reports index_converted = TRUE, every search after it
\* succeeds and some search returns results.
C29_ConvertedIndexAnswers ==
    /\ \A new_mode \in Modes :
           LET r == switch_mode(World, pipeline, new_mode, FALSE)
           IN  /\ r.result.success
               /\ r.result.index_converted
                      = (UseBinary(pipeline.current_mode) # UseBinary(new_mode))
    /\ IngestedInPerformance =>
           LET r == switch_mode(World, pipeline, "eco", FALSE)
           IN  /\ r.result.index_converted
               /\ \A query \in Queries, k \in 1..MaxK :
                      pipeline_search(r.w, r.pipeline, query, k).success
               /\ \E query \in Queries, k \in 1..MaxK :
                      pipeline_search(r.w, r.pipeline, query, k).count > 0

----------------------------------------------------------------------------
(* ONNXEmbedder.quantize_binary called on its own, on float rows of every   *)
(* sign pattern (the rows of ModelOutput have no zero component).  One step *)
(* for the thresholding statement, one for the packing loop and the return. *)

\* Largest number of packed bytes of a row
MaxPackedDims == 2

\* The float components, by sign: negative, zero, positive
Components == {-1, 0, 1}

\* Groups of 8 components that longer rows are made of
Blocks ==
    {<<1, -1, 1, -1, -1, 1, -1, 1>>,
     <<0, 0, 0, 0, 0, 0, 0, 0>>,
     <<1, 1, 1, 1, 1, 1, 1, 1>>,
     <<-1, -1, -1, -1, -1, -1, -1, -1>>,
     <<1, 0, 0, 0, 0, 0, 0, 0>>,
     <<0, -1, 0, -1, 0, -1, 0, 1>>}

\* Every row of 8 components, and the rows of up to MaxPackedDims blocks
Rows ==
    [1..8 -> Components]
    \cup UNION {{[i \in 1..(8 * packed_dims) |-> blocks[((i - 1) \div 8) + 1][((i - 1) % 8) + 1]] :
                    blocks \in [1..packed_dims -> Blocks]} :
                packed_dims \in 2..MaxPackedDims}

\* quantize_binary(embeddings) is called with a matrix of one row
QuantizeInit ==
    /\ Constructed("eco")
    /\ quantizer \in {[pc |-> "called", embeddings |-> <<row>>, packed |-> <<>>,
                        bits |-> <<>>] : row \in Rows}

\* binary_bits = (embeddings > 0).astype(np.uint8)
QuantizeThreshold ==
    /\ quantizer.pc = "called"
    /\ quantizer' = [quantizer EXCEPT
           !.pc = "thresholded",
           !.bits = [n \in 1..Len(quantizer.embeddings) |->
                        [i \in 1..Len(quantizer.embeddings[n]) |->
                            IF quantizer.embeddings[n][i] > 0 THEN 1 ELSE 0]]]
    /\ UNCHANGED <<pipeline, processor, faiss_index, db, disk, hist, threads, singleton>>

\* the reshape, the packing loop and the return
QuantizePack ==
    /\ quantizer.pc = "thresholded"
    /\ quantizer' = [quantizer EXCEPT
           !.pc = "returned",
           !.packed = [n \in 1..Len(quantizer.embeddings) |->
                          quantize_binary(quantizer.embeddings[n])]]
    /\ UNCHANGED <<pipeline, processor, faiss_index, db, disk, hist, threads, singleton>>

QuantizeNext ==
    \/ QuantizeThreshold
    \/ QuantizePack

QuantizeSpec == QuantizeInit /\ [][QuantizeNext]_vars

\* C30: when quantize_binary has returned, each packed row has one byte per 8
\* components, bit i of the row (bit i % 8 of byte i \div 8, bit 0 the most
\* significant) is 1 iff component i is strictly positive, and a row that
\* starts +,-,+,-,-,+,-,+ has first byte 0xA5 = 165.
C30_PackedBitIsSign ==
    quantizer.pc = "returned" =>
        \A n \in 1..Len(quantizer.embeddings) :
            LET v == quantizer.embeddings[n]
                packed == quantizer.packed[n]
            IN  /\ Len(packed) = Len(v) \div 8
                /\ \A j \in 1..Len(packed) : packed[j] \in 0..255
                /\ \A i \in 0..(Len(v) - 1) :
                       (BitOf(packed[(i \div 8) + 1], i % 8) = 1) <=> (v[i + 1] > 0)
                /\ (v[1] > 0 /\ v[2] < 0 /\ v[3] > 0 /\ v[4] < 0
                        /\ v[5] < 0 /\ v[6] > 0 /\ v[7] < 0 /\ v[8] > 0)
                       => packed[1] = 165

\* C30 happens: quantize_binary has returned for a row of 16 components that
\* starts +,-,+,-,-,+,-,+ and goes on with zeros, negatives and one positive
\* component; the packed row is <<0xA5, 0x01>>.
C30_PackedA5 ==
    /\ quantizer.pc = "returned"
    /\ quantizer.embeddings = <<<<1, -1, 1, -1, -1, 1, -1, 1, 0, -1, 0, -1, 0, -1, 0, 1>>>>
    /\ quantizer.bits = <<<<1, 0, 1, 0, 0, 1, 0, 1, 0, 0, 0, 0, 0, 0, 0, 1>>>>
    /\ quantizer.packed = <<<<165, 1>>>>

----------------------------------------------------------------------------
(* LightweightFAISSIndex.add called with every kind of argument            *)

\* The thresholded bits of a text's model output, one uint8 per feature (the
\* binary_bits of quantize_binary before packing): a uint8 row of width DIM
BinaryBits(text) == [i \in 1..DIM |-> IF ModelOutput(text)[i] > 0 THEN 1 ELSE 0]

\* Matrices handed to add: float32 rows, packed uint8 rows, and unpacked
\* uint8 rows, of zero, one and two rows
AddMatrices ==
    LET rowsOf(f(_)) == {<<>>} \cup {<<f(q)>> : q \in Queries}
                            \cup {<<f(q), f(r)>> : q \in Queries, r \in Queries}
        Float(q) == ModelOutput(q)
        Packed(q) == quantize_binary(ModelOutput(q))
    IN  {[dtype |-> "float32", rows |-> rows] : rows \in rowsOf(Float)}
        \cup {[dtype |-> "uint8", rows |-> rows] : rows \in rowsOf(Packed)}
        \cup {[dtype |-> "uint8", rows |-> rows] : rows \in rowsOf(BinaryBits)}

\* Lists of doc ids handed to add
AddDocIds == {<<>>, <<1>>, <<2, 1>>}

\* What add requires of its arguments: as many rows as ids, the dtype of the
\* backend, and rows of the backend's width
AddRequirement(ix, embeddings, doc_ids) ==
    /\ Len(embeddings.rows) = Len(doc_ids)
    /\ embeddings.dtype = (IF ix.use_binary THEN "uint8" ELSE "float32")
    /\ \A n \in 1..Len(embeddings.rows) : Len(embeddings.rows[n]) = BackendWidth(ix)

\* C31: add(matrix, ids) with a row count different from len(ids) or a dtype
\* (or row width) that does not match the backend reports an error (raises or
\* returns False) and leaves ntotal, id_map and next_internal_id unchanged;
\* otherwise it appends len(ids) slots next_internal_id ..
\* next_internal_id + len(ids) - 1 mapped to the ids in order.
C31_AddChecksItsArguments ==
    \A embeddings \in AddMatrices, doc_ids \in AddDocIds :
        LET r == add(faiss_index, embeddings, doc_ids)
        IN  IF ~AddRequirement(faiss_index, embeddings, doc_ids)
            THEN /\ r.raised \/ ~r.returned
                 /\ r.ix = faiss_index
            ELSE /\ ~r.raised
                 /\ ntotal(r.ix) = ntotal(faiss_index) + Len(doc_ids)
                 /\ r.ix.next_internal_id = faiss_index.next_internal_id + Len(doc_ids)
                 /\ \A i \in 1..Len(doc_ids) :
                        /\ (faiss_index.next_internal_id + i - 1) \in DOMAIN r.ix.id_map
                        /\ r.ix.id_map[faiss_index.next_internal_id + i - 1] = doc_ids[i]
                 /\ \A s \in DOMAIN faiss_index.id_map :
                        s < faiss_index.next_internal_id
                            => s \in DOMAIN r.ix.id_map /\ r.ix.id_map[s] = faiss_index.id_map[s]

----------------------------------------------------------------------------
(* Rejected inputs                                                         *)

\* C32: index_file on a missing path, index_directory on a missing path or one
\* that is no directory, and switch_mode with a string that names none of eco,
\* balanced, performance (the string is compared in lower case) each return
\* success = FALSE with an error and leave the pipeline's mode, the processor,
\* the index, the files table and the snapshot unchanged.
C32_InputErrorsChangeNothing ==
    /\ \A path \in Paths, plan \in Plans :
           ~FileSystem[path].exists =>
               LET r == pipeline_index_file(World, pipeline, path, plan)
               IN  /\ ~r.result.success
                   /\ r.result.error # "None"
                   /\ r.w = World
                   /\ r.pipeline = pipeline
    /\ \A dirpath \in Dirs, plan \in Plans :
           ~DirExists(dirpath) =>
               LET r == pipeline_index_directory(World, pipeline, dirpath, plan)
               IN  /\ ~r.result.success
                   /\ r.result.error # "None"
                   /\ r.w = World
                   /\ r.pipeline = pipeline
    /\ \A mode_string \in ModeStrings :
           Lower(mode_string) \notin Modes =>
               LET r == switch_mode(World, pipeline, mode_string, FALSE)
               IN  /\ ~r.result.success
                   /\ r.result.error = "Invalid mode"
                   /\ r.w = World
                   /\ r.pipeline = pipeline

\* C32 happens: the store holds chunks, the pipeline is in balanced mode, and
\* the three calls with a wrong input are rejected: a missing file, a file
\* given as a directory, and the mode string "turbo".
C32_RejectedWithDataInStore ==
    /\ db # EmptyTable
    /\ ntotal(faiss_index) > 0
    /\ pipeline.current_mode = "balanced"
    /\ ~pipeline_index_file(World, pipeline, "/d/none.txt", AllOk).result.success
    /\ ~pipeline_index_directory(World, pipeline, "/d/a.txt", AllOk).result.success
    /\ ~switch_mode(World, pipeline, "turbo", FALSE).result.success
    /\ switch_mode(World, pipeline, "turbo", FALSE).w = World

----------------------------------------------------------------------------
(* Requeue after a failure                                                 *)

\* The non-blank chunks of the file at path under the chunker of mode
FileChunks(path, mode) ==
    SelectSeq(Chunks(extract_text(path), mode), LAMBDA c : Strip(c) # <<>>)

\* C33: when index_file(path) has failed after it inserted a part of the
\* file's chunks, a second index_file(path) without failures is not answered
\* as a duplicate, and when it succeeds every chunk of the file is in the
\* table exactly once.
C33_RequeueAfterPartialFailure ==
    \A path \in Paths, plan \in Plans :
        ReachesChunkLoop(path) =>
            LET file_hash == compute_file_hash(path)
                first == processor_index_file(World, path, plan)
                second == processor_index_file(first.w, path, AllOk)
                chunks == FileChunks(path, second.w.chunker)
                rows == {i \in DOMAIN second.w.db : second.w.db[i].file_hash = file_hash}
            IN  (/\ ~first.result.success
                 /\ \E i \in DOMAIN first.w.db : first.w.db[i].file_hash = file_hash)
                => /\ second.result.message # "File already indexed (duplicate)"
                   /\ second.result.success =>
                          \A n \in 1..Len(chunks) :
                              Cardinality({i \in rows : second.w.db[i].text = chunks[n]}) = 1

----------------------------------------------------------------------------
(* The index across a switch that keeps the representation                 *)

\* C34: a successful switch_mode between two modes of the same representation
\* (index_converted = FALSE) leaves the index as it was: the new processor's
\* index has the vectors, the id_map and the next_internal_id that the old
\* processor's index had in memory right before the switch.
C34_SameRepresentationKeepsIndex ==
    \A new_mode \in Modes \ {pipeline.current_mode} :
        LET r == switch_mode(World, pipeline, new_mode, FALSE)
        IN  (r.result.success /\ ~r.result.index_converted)
            => /\ ntotal(r.w.ix) = ntotal(faiss_index)
               /\ r.w.ix.vecs = faiss_index.vecs
               /\ r.w.ix.id_map = faiss_index.id_map
               /\ r.w.ix.next_internal_id = faiss_index.next_internal_id

----------------------------------------------------------------------------
(* The mode the pipeline reports                                           *)

\* C35: after every operation of the pipeline, the mode the pipeline reports
\* (_current_mode) is the mode of its processor; after an OOM downgrade it is
\* eco, whatever the result of the index_file call that downgraded.
C35_PipelineReportsProcessorMode ==
    /\ pipeline.current_mode = processor.mode
    /\ processor.mode_switched => pipeline.current_mode = "eco"

----------------------------------------------------------------------------
(* The count index_file returns                                            *)

\* C36: the chunks_inserted that index_file returns is the number of rows the
\* call added to the files table and the number of vectors it added to the
\* index, whatever the outcome of the call (success, failure partway, a failed
\* INSERT, a downgrade with retry).
C36_ChunksInsertedCountsRows ==
    \A path \in Paths, plan \in Plans :
        LET r == processor_index_file(World, path, plan)
        IN  /\ r.result.chunks_inserted = count_chunks(r.w.db) - count_chunks(db)
            /\ r.result.chunks_inserted = ntotal(r.w.ix) - ntotal(faiss_index)

----------------------------------------------------------------------------
(* The files_indexed of index_directory                                    *)

\* 1 when the table has more rows after a step of the walk than before it
GainedRows(before, after) == IF count_chunks(after.db) > count_chunks(before.db) THEN 1 ELSE 0

\* C37: the files_indexed of the pipeline's index_directory result is the
\* number of files of the walk for which index_file inserted at least one
\* chunk.
C37_FilesIndexedCountsFiles ==
    \A plan \in Plans :
        LET files == DirListing("/d")
            r == pipeline_index_directory(World, pipeline, "/d", plan)
            s1 == WalkStep(World, files[1], plan)
            s2 == WalkStep(s1.w, files[2], plan)
            s3 == WalkStep(s2.w, files[3], plan)
            s4 == WalkStep(s3.w, files[4], plan)
        IN  r.result.files_indexed
                = GainedRows(World, s1.w) + GainedRows(s1.w, s2.w)
                  + GainedRows(s2.w, s3.w) + GainedRows(s3.w, s4.w)

----------------------------------------------------------------------------
(* Ingestion of a file again after its rows were deleted                   *)

\* The store after delete_by_hash(file_hash) (or clear_index) has returned
AfterRemoval(w, file_hash, by_clear) ==
    IF by_clear THEN clear_all(w) ELSE processor_delete_by_hash(w, file_hash).w

\* C38: after delete_by_hash(h) or clear_index has returned, index_file on a
\* file with hash h is not answered as a duplicate: it inserts the file's
\* chunks again, and each of the new rows is mapped by exactly one slot of the
\* index.
C38_ReingestAfterRemoval ==
    \A path \in Paths, by_clear \in BOOLEAN :
        (FileSystem[path].exists /\ Strip(extract_text(path)) # <<>>) =>
            LET file_hash == compute_file_hash(path)
                removed == AfterRemoval(World, file_hash, by_clear)
                again == processor_index_file(Again(removed), path, AllOk)
                rows == RowsOf(again.w.db, file_hash)
            IN  (/\ ntotal(removed.ix) + Len(FileChunks(path, removed.chunker)) <= MaxVectors
                 /\ get_max_id(removed.db) + Len(FileChunks(path, removed.chunker)) <= MaxId)
                => /\ again.result.message # "File already indexed (duplicate)"
                   /\ again.result.success
                   /\ Cardinality(rows) = Len(FileChunks(path, removed.chunker))
                   /\ again.result.chunks_inserted = Cardinality(rows)
                   /\ \A i \in rows : Cardinality(SlotsOf(again.w.ix, i)) = 1

----------------------------------------------------------------------------
(* Slot numbers and backend positions                                      *)

\* next_internal_id is the number of vectors in the backend and every key of
\* id_map is a slot below it
SlotsMatchBackend(ix) ==
    /\ ix.next_internal_id = ntotal(ix)
    /\ DOMAIN ix.id_map \subseteq 0..(ix.next_internal_id - 1)

\* C39: in every state of a vector index reached by add, remove, clear,
\* save_cache and construction with load, next_internal_id equals ntotal and
\* every key of id_map is in 0 .. next_internal_id - 1: for the live index of
\* every reachable state, and for the index constructed over the snapshot
\* files that any operation leaves when the process dies inside it (among
\* them the index file without the id-mapping file).
C39_NextSlotIsBackendSize ==
    /\ SlotsMatchBackend(faiss_index)
    /\ \A c \in CrashPoints(World), mode \in Modes :
           SlotsMatchBackend(OpenIndex(mode, c.disk))

============================================================================
